---- MODULE Spec2Model ----
(***************************************************************************)
(* Run ingest (sessions, chunks, completion, recovery) and the external    *)
(* import pipeline of the ranking-run backend, as a state machine over the *)
(* relational store.                                                       *)
(*                                                                         *)
(* Tables are sequences of rows in insertion order; a session id is the    *)
(* row's position in run_sessions.  Python None is the empty sequence and  *)
(* an optional value x is <<x>>.                                           *)
(***************************************************************************)
EXTENDS Integers, Sequences, FiniteSets, TLC

\* ------------------------------------------------------------------ bounds
MaxRows == 4      \* rows in all tables together

\* ------------------------------------------------------------------ inputs
Users == {"u1", "u2"}
Courses == {"c1"}
None == <<>>
Some(x) == <<x>>

\* Chunk sequences a client sends and the total_chunks it reports.
SeqNums == {0, 1}
TotalChunks == {0, 1, 2, 3}

Pt(lng, lat) == [lng |-> lng, lat |-> lat]

\* Chunk bodies a client can send: cumulative snapshot, raw points, optional
\* filtered points.  The second has a cumulative pace of 0 (the schema default)
\* and filtered points that differ from its raw points.
ChunkBodies ==
  { [cumulative |-> [total_distance_meters |-> 1000, total_duration_seconds |-> 300,
                     avg_pace_seconds_per_km |-> 300],
     raw_gps_points |-> <<Pt(1, 1), Pt(2, 1)>>, filtered_points |-> None],
    [cumulative |-> [total_distance_meters |-> 2000, total_duration_seconds |-> 640,
                     avg_pace_seconds_per_km |-> 0],
     raw_gps_points |-> <<Pt(3, 1)>>, filtered_points |-> Some(<<Pt(3, 2)>>)] }

\* Client summaries sent with complete_session.
CompleteBodies ==
  { [distance_meters |-> 5000, duration_seconds |-> 1500,
     avg_pace_seconds_per_km |-> Some(300), coordinates |-> <<Pt(1, 1), Pt(2, 1)>>,
     course_completion |-> Some(TRUE)],
    [distance_meters |-> 0, duration_seconds |-> 0,
     avg_pace_seconds_per_km |-> None, coordinates |-> <<Pt(1, 1)>>,
     course_completion |-> None] }

VARIABLES
  run_sessions,   \* table run_sessions: rows [user_id, course_id, status]
  run_chunks,     \* table run_chunks: rows [session_id, sequence, cumulative, raw_gps_points, filtered_points]
  run_records,    \* table run_records
  external_imports, \* table external_imports, each row with its background task
  requests,       \* chunk requests in flight, each with its session's transaction
  users,          \* table users: total_runs and total_distance_meters of each user
  rankings,       \* table rankings, rows in the order of their insertion
  course_stats,   \* table course_stats: the row of each course, or None
  tasks,          \* post-commit background tasks, each with its position
  courses,        \* table courses: the ids of the stored courses
  difficulty,     \* column courses.difficulty of each course
  refresh_tokens, \* table refresh_tokens: rows [user_id, token, is_revoked]
  call            \* a call of a pure function: its arguments and its result

\* The tables that post-commit work and deletions write.
post == <<users, rankings, course_stats, tasks, courses>>

\* What the run, import and ranking handlers never write.
rest == <<difficulty, refresh_tokens, call>>

vars == <<run_sessions, run_chunks, run_records, external_imports, requests, post, rest>>

\* ----------------------------------------------------------------- helpers
Range(s) == {s[i] : i \in 1..Len(s)}

Min(S) == CHOOSE x \in S : \A y \in S : x <= y
Max(S) == CHOOSE x \in S : \A y \in S : y <= x

\* sorted(S) for a finite set of integers: the ascending list.
RECURSIVE Sorted(_)
Sorted(S) == IF S = {} THEN <<>> ELSE <<Min(S)>> \o Sorted(S \ {Min(S)})

RECURSIVE SelectSeq2(_, _, _)
SelectSeq2(s, sid, acc) ==
  IF s = <<>> THEN acc
  ELSE SelectSeq2(Tail(s), sid, IF Head(s).session_id = sid THEN Append(acc, Head(s)) ELSE acc)

\* select(RunChunk).where(RunChunk.session_id == sid), in table order.
ChunksOf(chunks, sid) == SelectSeq2(chunks, sid, <<>>)

\* .order_by(RunChunk.sequence): insertion sort of the selected rows.
RECURSIVE InsertBySequence(_, _)
InsertBySequence(row, sorted) ==
  IF sorted = <<>> THEN <<row>>
  ELSE IF row.sequence < Head(sorted).sequence THEN <<row>> \o sorted
  ELSE <<Head(sorted)>> \o InsertBySequence(row, Tail(sorted))

RECURSIVE OrderBySequence(_)
OrderBySequence(rows) ==
  IF rows = <<>> THEN <<>>
  ELSE InsertBySequence(Head(rows), OrderBySequence(Tail(rows)))

\* select(RunChunk).where(session_id == sid, sequence == seq) is not None
ChunkExists(chunks, sid, seq) ==
  \E i \in 1..Len(chunks) : chunks[i].session_id = sid /\ chunks[i].sequence = seq

NewChunk(sid, seq, body) ==
  [session_id |-> sid, sequence |-> seq, cumulative |-> body.cumulative,
   raw_gps_points |-> body.raw_gps_points, filtered_points |-> body.filtered_points]

\* ----------------------------------------------------- run_service.py
\* Every handler is a function of the store and the request: it yields the
\* error code it raises (or "OK"), the store it leaves and the value it returns.

\* The lookup without the user_id condition.
FindSessionAnyUser(sessions, sid, user) == sid \in 1..Len(sessions)

\* select(RunSession).where(RunSession.id == session_id, RunSession.user_id == user_id)
FindSession(sessions, sid, user) ==
  sid \in 1..Len(sessions) /\ sessions[sid].user_id = user

\* A status gate that lets completed sessions take single uploads and imported
\* ones take batches.
ValidStatusesAnyStored(allow_completed) ==
  IF allow_completed THEN {"active", "completed", "recovered", "imported"}
  ELSE {"active", "completed"}

ValidStatuses(allow_completed) ==
  IF allow_completed THEN {"active", "completed", "recovered"} ELSE {"active"}

\* _get_active_session: the error code it raises, or "OK".
GetActiveSession(sessions, sid, user, allow_completed) ==
  IF ~FindSession(sessions, sid, user) THEN "NOT_FOUND"
  ELSE IF sessions[sid].status \notin ValidStatuses(allow_completed)
       THEN "INVALID_SESSION_STATE"
       ELSE "OK"

\* create_session
CreateSessionResult(sessions, u, course) ==
  IF course # None /\ course[1] \notin courses
  THEN [code |-> "NOT_FOUND", run_sessions |-> sessions]
  ELSE [code |-> "OK",
        run_sessions |-> Append(sessions,
            [user_id |-> u, course_id |-> course, status |-> "active"])]

\* upload_chunk
UploadChunkResult(sessions, chunks, u, sid, seq, body) ==
  LET code == GetActiveSession(sessions, sid, u, FALSE) IN
  IF code # "OK" THEN [code |-> code, run_chunks |-> chunks]
  ELSE IF ChunkExists(chunks, sid, seq)
       THEN [code |-> "DUPLICATE_CHUNK", run_chunks |-> chunks]
       ELSE [code |-> "OK", run_chunks |-> Append(chunks, NewChunk(sid, seq, body))]

\* The batch loop without the existence check.
RECURSIVE BatchLoopNoCheck(_, _, _, _)
BatchLoopNoCheck(chunks, sid, data, received) ==
  IF data = <<>> THEN [run_chunks |-> chunks, received |-> received]
  ELSE BatchLoopNoCheck(Append(chunks, NewChunk(sid, Head(data).sequence, Head(data).body)),
                        sid, Tail(data), Append(received, Head(data).sequence))

\* The loop of batch_upload_chunks over chunks_data, the request running alone:
\* a sequence already stored is reported received; any other is inserted,
\* flushed and reported received.
RECURSIVE BatchLoop(_, _, _, _)
BatchLoop(chunks, sid, data, received) ==
  IF data = <<>> THEN [run_chunks |-> chunks, received |-> received]
  ELSE IF ChunkExists(chunks, sid, Head(data).sequence)
       THEN BatchLoop(chunks, sid, Tail(data), Append(received, Head(data).sequence))
       ELSE BatchLoop(Append(chunks, NewChunk(sid, Head(data).sequence, Head(data).body)),
                      sid, Tail(data), Append(received, Head(data).sequence))

\* batch_upload_chunks
BatchUploadResult(sessions, chunks, u, sid, data) ==
  LET code == GetActiveSession(sessions, sid, u, TRUE) IN
  IF code # "OK"
  THEN [code |-> code, run_chunks |-> chunks, received |-> <<>>, failed |-> <<>>]
  ELSE [code |-> "OK", run_chunks |-> BatchLoop(chunks, sid, data, <<>>).run_chunks,
        received |-> BatchLoop(chunks, sid, data, <<>>).received, failed |-> <<>>]

\* {row.sequence for row in select(RunChunk.sequence).where(session_id == sid)}
ServerSequences(chunks, sid) ==
  {chunks[i].sequence : i \in {j \in 1..Len(chunks) : chunks[j].session_id = sid}}

\* range(total_chunks + 1) in place of range(total_chunks).
MissingInclusive(total_chunks, server_sequences) ==
  Sorted((0..total_chunks) \ server_sequences)

\* sorted(set(range(total_chunks)) - server_sequences)
Missing(total_chunks, server_sequences) ==
  Sorted((0..(total_chunks - 1)) \ server_sequences)

\* LineString of the coordinates when there are at least two, else None.
RouteOf(points) == IF Len(points) >= 2 THEN points ELSE None

\* The RunRecord complete_session builds from the client's summary.
CompleteRecord(session, u, sid, body) ==
  [user_id |-> u, session_id |-> sid, course_id |-> session.course_id,
   distance_meters |-> body.distance_meters,
   duration_seconds |-> body.duration_seconds,
   avg_pace_seconds_per_km |-> body.avg_pace_seconds_per_km,
   route_geometry |-> RouteOf(body.coordinates),
   course_completed |-> IF body.course_completion # None /\ session.course_id # None
                        THEN body.course_completion ELSE None,
   source |-> "app", external_import_id |-> None]

\* complete_session; record is the position of the RunRecord it returns.
CompleteSessionResult(sessions, chunks, records, u, sid, body, total_chunks) ==
  LET code == GetActiveSession(sessions, sid, u, FALSE) IN
  IF code # "OK"
  THEN [code |-> code, run_sessions |-> sessions, run_records |-> records,
        record |-> 0, missing |-> <<>>]
  ELSE [code |-> "OK",
        run_sessions |-> [sessions EXCEPT ![sid].status = "completed"],
        run_records |-> Append(records, CompleteRecord(sessions[sid], u, sid, body)),
        record |-> Len(records) + 1,
        missing |-> Missing(total_chunks, ServerSequences(chunks, sid))]

\* chunk.filtered_points or chunk.raw_gps_points
PointsOf(chunk) ==
  IF chunk.filtered_points # None /\ chunk.filtered_points[1] # <<>>
  THEN chunk.filtered_points[1] ELSE chunk.raw_gps_points

RECURSIVE AllPoints(_)
AllPoints(chunks) ==
  IF chunks = <<>> THEN <<>> ELSE PointsOf(Head(chunks)) \o AllPoints(Tail(chunks))

\* int(cumulative.get("avg_pace_seconds_per_km", 0)) if cumulative.get(...) else None
PaceOf(cumulative) ==
  IF cumulative.avg_pace_seconds_per_km # 0
  THEN Some(cumulative.avg_pace_seconds_per_km) ELSE None

\* The chunk query without order_by.
RecoverChunksUnordered(chunks, sid) == ChunksOf(chunks, sid)

\* The rows recover_session reads: select(RunChunk).where(...).order_by(sequence)
RecoverChunks(chunks, sid) == OrderBySequence(ChunksOf(chunks, sid))

\* The RunRecord recover_session reconstructs from the ordered chunk rows.
RecoverRecord(session, u, sid, chunks) ==
  LET last_chunk == chunks[Len(chunks)] IN
  [user_id |-> u, session_id |-> sid, course_id |-> session.course_id,
   distance_meters |-> last_chunk.cumulative.total_distance_meters,
   duration_seconds |-> last_chunk.cumulative.total_duration_seconds,
   avg_pace_seconds_per_km |-> PaceOf(last_chunk.cumulative),
   route_geometry |-> RouteOf(AllPoints(chunks)),
   course_completed |-> None,
   source |-> "app", external_import_id |-> None]

\* recover_session without the ALREADY_COMPLETED check.
RecoverCodeNoStatusCheck(sessions, chunks, u, sid) ==
  IF ~(sid \in 1..Len(sessions) /\ sessions[sid].user_id = u) THEN "NOT_FOUND"
  ELSE IF RecoverChunks(chunks, sid) = <<>> THEN "NO_CHUNKS"
  ELSE "OK"

\* recover_session: the error code it raises, or "OK".
RecoverCode(sessions, chunks, u, sid) ==
  IF ~(sid \in 1..Len(sessions) /\ sessions[sid].user_id = u) THEN "NOT_FOUND"
  ELSE IF sessions[sid].status = "completed" THEN "ALREADY_COMPLETED"
  ELSE IF RecoverChunks(chunks, sid) = <<>> THEN "NO_CHUNKS"
  ELSE "OK"

\* recover_session; record is the position of the RunRecord it returns.
RecoverSessionResult(sessions, chunks, records, u, sid, total_chunks) ==
  LET code == RecoverCode(sessions, chunks, u, sid)
      rows == RecoverChunks(chunks, sid) IN
  IF code # "OK"
  THEN [code |-> code, run_sessions |-> sessions, run_records |-> records,
        record |-> 0, missing |-> <<>>]
  ELSE [code |-> "OK",
        run_sessions |-> [sessions EXCEPT ![sid].status = "recovered"],
        run_records |-> Append(records, RecoverRecord(sessions[sid], u, sid, rows)),
        record |-> Len(records) + 1,
        missing |-> Missing(total_chunks, {rows[i].sequence : i \in 1..Len(rows)})]

\* ------------------------------------------------------------ the requests
\* The rows the store holds or has room kept for: an import counts for three,
\* its own row and the session and the record it stores when it succeeds.
Rows ==
  Len(run_sessions) + Len(run_chunks) + Len(run_records) + Len(external_imports)
    + 2 * Cardinality({i \in 1..Len(external_imports) :
                         external_imports[i].committed.run_record_id = None})

\* Ids a request can name: every stored session and one id that is not stored.
SessionIds == 1..(Len(run_sessions) + 1)

CreateSession(u, course) ==
  LET r == CreateSessionResult(run_sessions, u, course) IN
  /\ Rows + (Len(r.run_sessions) - Len(run_sessions)) <= MaxRows
  /\ run_sessions' = r.run_sessions
  /\ UNCHANGED <<rest, post, requests, run_chunks, run_records, external_imports>>

UploadChunk(u, sid, seq, body) ==
  LET r == UploadChunkResult(run_sessions, run_chunks, u, sid, seq, body) IN
  /\ Rows + (Len(r.run_chunks) - Len(run_chunks)) <= MaxRows
  /\ run_chunks' = r.run_chunks
  /\ UNCHANGED <<rest, post, requests, run_sessions, run_records, external_imports>>

BatchUploadChunks(u, sid, data) ==
  LET r == BatchUploadResult(run_sessions, run_chunks, u, sid, data) IN
  /\ Rows + (Len(r.run_chunks) - Len(run_chunks)) <= MaxRows
  /\ run_chunks' = r.run_chunks
  /\ UNCHANGED <<rest, post, requests, run_sessions, run_records, external_imports>>

\* total_chunks decides only the returned missing list, never the store.
CompleteSession(u, sid, body) ==
  LET r == CompleteSessionResult(run_sessions, run_chunks, run_records, u, sid, body, 0) IN
  /\ Rows + (Len(r.run_records) - Len(run_records)) <= MaxRows
  /\ run_sessions' = r.run_sessions
  /\ run_records' = r.run_records
  /\ UNCHANGED <<rest, post, requests, run_chunks, external_imports>>

RecoverSession(u, sid) ==
  LET r == RecoverSessionResult(run_sessions, run_chunks, run_records, u, sid, 0) IN
  /\ Rows + (Len(r.run_records) - Len(run_records)) <= MaxRows
  /\ run_sessions' = r.run_sessions
  /\ run_records' = r.run_records
  /\ UNCHANGED <<rest, post, requests, run_chunks, external_imports>>

\* ------------------------------------------------------------------ rankings
\* ranking_service.upsert_ranking, lines 154-160: the caller's row on the course.
FindRanking(rows, course, user) ==
  {i \in 1..Len(rows) : rows[i].course_id = course /\ rows[i].user_id = user}

ExistingRanking(rows, course, user) ==
  IF FindRanking(rows, course, user) = {} THEN None
  ELSE Some(CHOOSE i \in FindRanking(rows, course, user) : TRUE)

\* upsert_ranking, lines 171-177: run_count takes the column default 1 and rank
\* stays NULL until the ranks are recalculated.
NewRanking(course, user, duration, pace, achieved_at) ==
  [course_id |-> course, user_id |-> user, best_duration_seconds |-> duration,
   best_pace_seconds_per_km |-> pace, run_count |-> 1, rank |-> None,
   achieved_at |-> achieved_at]

\* The update with the bests overwritten by an equal duration as well.
UpdatedRankingNonStrict(current, loaded, duration, pace, achieved_at) ==
  LET counted == [current EXCEPT !.run_count = loaded.run_count + 1] IN
  IF duration <= loaded.best_duration_seconds
  THEN [counted EXCEPT !.best_duration_seconds = duration,
                       !.best_pace_seconds_per_km = pace,
                       !.achieved_at = achieved_at]
  ELSE counted

\* upsert_ranking, lines 162-168: the columns are computed from the row as the
\* select loaded it and the UPDATE writes only them into the current row.
UpdatedRanking(current, loaded, duration, pace, achieved_at) ==
  LET counted == [current EXCEPT !.run_count = loaded.run_count + 1] IN
  IF duration < loaded.best_duration_seconds
  THEN [counted EXCEPT !.best_duration_seconds = duration,
                       !.best_pace_seconds_per_km = pace,
                       !.achieved_at = achieved_at]
  ELSE counted

\* upsert_ranking, lines 144-180, in one transaction.
UpsertRanking(rows, course, user, duration, pace, achieved_at) ==
  LET existing == ExistingRanking(rows, course, user) IN
  IF existing # None
  THEN [rows EXCEPT ![existing[1]] = UpdatedRanking(@, @, duration, pace, achieved_at)]
  ELSE Append(rows, NewRanking(course, user, duration, pace, achieved_at))

\* recalculate_ranks, lines 184-187: where(Ranking.course_id == course_id).
CourseRows(rows, course) == {i \in 1..Len(rows) : rows[i].course_id = course}

\* recalculate_ranks, line 187: order_by(best_duration_seconds) has no second
\* key, so the rows of equal best_duration_seconds come in any order.
RankOrders(rows, course) ==
  LET S == CourseRows(rows, course) IN
  {o \in [1..Cardinality(S) -> S] :
     \A p, q \in 1..Cardinality(S) :
       p < q => /\ o[p] # o[q]
                /\ rows[o[p]].best_duration_seconds <= rows[o[q]].best_duration_seconds}

PositionIn(order, i) == CHOOSE p \in DOMAIN order : order[p] = i

\* The ranks written as the 0-based index of enumerate.
RecalculateRanksZeroBased(rows, course, order) ==
  [i \in 1..Len(rows) |->
     IF i \in CourseRows(rows, course)
     THEN [rows[i] EXCEPT !.rank = Some(PositionIn(order, i) - 1)]
     ELSE rows[i]]

\* recalculate_ranks, lines 189-194: ranking.rank = i + 1 over enumerate.
RecalculateRanks(rows, course, order) ==
  [i \in 1..Len(rows) |->
     IF i \in CourseRows(rows, course)
     THEN [rows[i] EXCEPT !.rank = Some(PositionIn(order, i))]
     ELSE rows[i]]

\* ------------------------------------------------- tasks/ranking.py
\* recalculate_course_ranking, lines 44-56: the RunRecord the task goes on
\* with, None when it is not stored or did not complete its course.
RankingRecord(records, rid) ==
  IF rid \in 1..Len(records) /\ records[rid].course_completed = Some(TRUE)
  THEN Some(records[rid]) ELSE None

\* recalculate_course_ranking, lines 58-65.
RankingPace(rec) ==
  IF rec.avg_pace_seconds_per_km # None THEN rec.avg_pace_seconds_per_km[1]
  ELSE IF rec.distance_meters > 0
       THEN (rec.duration_seconds * 1000) \div rec.distance_meters
       ELSE 0

\* upsert_ranking, lines 154-160, in the task's own transaction: the row as the
\* select returns it.
LoadRanking(rows, course, user) ==
  LET existing == ExistingRanking(rows, course, user) IN
  IF existing = None THEN None ELSE Some(rows[existing[1]])

\* upsert_ranking, lines 162-180, once the task writes: the table with the
\* task's INSERT or UPDATE, or None when the statement raises. The INSERT
\* raises on the unique index idx_rankings_course_user and on the foreign key
\* to courses; the UPDATE raises when the row it loaded is gone. achieved_at is
\* finished_at of the record, one instant per record.
FlushRanking(rows, stored_courses, course, user, rec, rid, loaded) ==
  IF loaded = None
  THEN IF course \in stored_courses /\ FindRanking(rows, course, user) = {}
       THEN Some(Append(rows, NewRanking(course, user, rec.duration_seconds,
                                         RankingPace(rec), rid)))
       ELSE None
  ELSE IF FindRanking(rows, course, user) = {} THEN None
       ELSE Some([rows EXCEPT ![CHOOSE k \in FindRanking(rows, course, user) : TRUE] =
                    UpdatedRanking(@, loaded[1], rec.duration_seconds,
                                   RankingPace(rec), rid)])

\* recalculate_course_ranking, lines 67-82: the tables the task may commit, the
\* table as it is when upsert_ranking raises (except Exception, line 81).
WriteRanking(rows, stored_courses, course, user, rec, rid, loaded) ==
  LET flushed == FlushRanking(rows, stored_courses, course, user, rec, rid, loaded) IN
  IF flushed = None THEN {rows}
  ELSE {RecalculateRanks(flushed[1], course, order) :
          order \in RankOrders(flushed[1], course)}

\* recalculate_course_ranking run from its first line to its last with no
\* other transaction in between: the tables it may leave.
RecalculateCourseRanking(rows, records, stored_courses, course, user, rid) ==
  IF RankingRecord(records, rid) = None THEN {rows}
  ELSE WriteRanking(rows, stored_courses, course, user, records[rid], rid,
                    LoadRanking(rows, course, user))

\* ------------------------------------- stats_service.py, tasks/stats.py
\* update_user_cumulative_stats, lines 150-154: both totals are computed from
\* the user row as the select loaded it.
UpdateUserCumulativeStats(totals, user, loaded, distance) ==
  [totals EXCEPT ![user] =
     [total_runs |-> loaded.total_runs + 1,
      total_distance_meters |-> loaded.total_distance_meters + distance]]

CompletedOn(records, course) ==
  {k \in 1..Len(records) :
     records[k].course_id = Some(course) /\ records[k].course_completed = Some(TRUE)}

AttemptsOn(records, course) ==
  {k \in 1..Len(records) : records[k].course_id = Some(course)}

\* update_course_stats, lines 157-224: the CourseStats row recomputed from the
\* RunRecords; completion_rate is kept as the fraction num / den.
CourseStatsRow(records, course) ==
  LET completed == CompletedOn(records, course)
      attempts == AttemptsOn(records, course) IN
  [total_runs |-> Cardinality(completed),
   unique_runners |-> Cardinality({records[k].user_id : k \in completed}),
   best_duration_seconds |->
     IF completed = {} THEN None
     ELSE Some(Min({records[k].duration_seconds : k \in completed})),
   completion_rate |->
     IF Cardinality(attempts) > 0
     THEN [num |-> Cardinality(completed), den |-> Cardinality(attempts)]
     ELSE [num |-> 0, den |-> 1]]

UpdateCourseStats(stats, records, course) ==
  [stats EXCEPT ![course] = Some(CourseStatsRow(records, course))]

\* update_stats_after_run, lines 39-49, once the user row is loaded: the totals
\* and the course statistics it commits. A course that is no longer stored
\* makes the INSERT of its CourseStats row raise, and nothing is committed.
WriteStats(totals, stats, records, stored_courses, user, course, distance, loaded) ==
  IF course # None /\ course[1] \notin stored_courses
  THEN [users |-> totals, course_stats |-> stats]
  ELSE [users |-> UpdateUserCumulativeStats(totals, user, loaded, distance),
        course_stats |-> IF course # None
                         THEN UpdateCourseStats(stats, records, course[1])
                         ELSE stats]

\* update_stats_after_run run from its first line to its last with no other
\* transaction in between.
UpdateStatsAfterRun(totals, stats, records, stored_courses, user, course, distance) ==
  WriteStats(totals, stats, records, stored_courses, user, course, distance,
             totals[user])

\* ------------------------------------------- speed_anomaly_service.py
\* _DISTANCE_SPEED_LIMITS: minimum distance in metres, limit in tenths of m/s.
DistanceSpeedLimits ==
  << <<0, 105>>, <<1000, 75>>, <<5000, 68>>, <<10000, 63>>, <<21097, 60>>,
     <<42195, 58>> >>

\* analyze_run, lines 69-75: the limit of the last bracket the distance reaches.
SpeedLimitTenths(distance) ==
  DistanceSpeedLimits[Max({k \in 1..Len(DistanceSpeedLimits) :
                             distance >= DistanceSpeedLimits[k][1]})][2]

\* analyze_run for a run that reports no avg_speed_ms, max_speed_ms, splits or
\* best pace: flagged when distance / duration exceeds the bracket's limit.
IsFlagged(distance, duration) ==
  /\ duration > 0
  /\ distance > 0
  /\ distance * 10 > SpeedLimitTenths(distance) * duration

\* ------------------------------------------ imports.py, import_service.py
\* What the parser makes of an uploaded file: None when parsing raises, else the
\* derived distance, duration and number of route coordinates.
Activities ==
  { None,
    Some([distance_meters |-> 50, duration_seconds |-> 600, points |-> 2]),
    Some([distance_meters |-> 5000, duration_seconds |-> 10, points |-> 2]),
    Some([distance_meters |-> 5000, duration_seconds |-> 1500, points |-> 0]),
    Some([distance_meters |-> 5000, duration_seconds |-> 1500, points |-> 2]) }

MinImportDistance == 100
MinImportDuration == 30

\* The message of the ValueError process_import raises while parsing and
\* validating, or None.
ValidationError(activity) ==
  IF activity = None THEN Some("parse error")
  ELSE IF activity[1].distance_meters < MinImportDistance THEN Some("Activity too short (< 100m)")
  ELSE IF activity[1].duration_seconds < MinImportDuration THEN Some("Activity too short (< 30s)")
  ELSE IF activity[1].points = 0 THEN Some("No GPS data in file")
  ELSE None

\* upload_activity_file: the ExternalImport row is committed as pending and
\* _run_import_in_background is queued for it.
StoreImport(u, source, activity) ==
  /\ external_imports' = Append(external_imports,
       [user_id |-> u, source |-> source, activity |-> activity, pc |-> "queued",
        status |-> "pending", error_message |-> None,
        tx_run |-> FALSE, course_match |-> None, seen_totals |-> None,
        loaded |-> None,
        committed |-> [status |-> "pending", error_message |-> None,
                       run_record_id |-> None]])
  /\ UNCHANGED <<rest, post, requests, run_sessions, run_chunks, run_records>>

UploadActivityFile(u, source, activity) ==
  /\ Rows + 3 <= MaxRows
  /\ StoreImport(u, source, activity)

\* process_import, lines 44-55: fetch the row, status = "processing", flush.
ImportStart(i) ==
  /\ external_imports[i].pc = "queued"
  /\ external_imports' = [external_imports EXCEPT ![i].status = "processing",
                                                  ![i].pc = "parse"]
  /\ UNCHANGED <<rest, post, requests, run_sessions, run_chunks, run_records>>

\* process_import, lines 57-80: read, parse and validate the file.
ImportParse(i) ==
  LET imp == external_imports[i]
      err == ValidationError(imp.activity) IN
  /\ imp.pc = "parse"
  /\ external_imports' =
       IF err # None
       THEN [external_imports EXCEPT ![i].pc = "except", ![i].error_message = err]
       ELSE [external_imports EXCEPT ![i].pc = "create"]
  /\ UNCHANGED <<rest, post, requests, run_sessions, run_chunks, run_records>>

\* process_import, lines 82-164: the RunSession (status imported) and the
\* RunRecord are added and flushed in the task's transaction; run_record_id is set.
ImportCreateRun(i) ==
  /\ external_imports[i].pc = "create"
  /\ external_imports' = [external_imports EXCEPT ![i].tx_run = TRUE, ![i].pc = "match"]
  /\ UNCHANGED <<rest, post, requests, run_sessions, run_chunks, run_records>>

MatchOutcomes == {"none", "completed", "raise"}

\* status = "completed" assigned before _match_to_courses is awaited.
ImportMatchStatusFirst(i, outcome) ==
  /\ external_imports[i].pc = "match"
  /\ outcome = "completed" => "c1" \in courses
  /\ external_imports' =
       IF outcome = "raise"
       THEN [external_imports EXCEPT ![i].pc = "except", ![i].status = "completed",
                                     ![i].error_message = Some("match error")]
       ELSE [external_imports EXCEPT
               ![i].pc = "commit", ![i].status = "completed",
               ![i].course_match = IF outcome = "completed" THEN Some("c1") ELSE None,
               ![i].seen_totals = Some(users[external_imports[i].user_id])]
  /\ UNCHANGED <<rest, post, requests, run_sessions, run_chunks, run_records>>

\* process_import, lines 166-179: _match_to_courses finds no course, completes a
\* stored course, or raises; then status = "completed" and the select of the
\* user row, whose totals the task holds until it commits.
ImportMatch(i, outcome) ==
  /\ external_imports[i].pc = "match"
  /\ outcome = "completed" => "c1" \in courses
  /\ external_imports' =
       IF outcome = "raise"
       THEN [external_imports EXCEPT ![i].pc = "except",
                                     ![i].error_message = Some("match error")]
       ELSE [external_imports EXCEPT
               ![i].pc = "commit", ![i].status = "completed",
               ![i].course_match = IF outcome = "completed" THEN Some("c1") ELSE None,
               ![i].seen_totals = Some(users[external_imports[i].user_id])]
  /\ UNCHANGED <<rest, post, requests, run_sessions, run_chunks, run_records>>

\* process_import, lines 173-184: the user's totals grow by the imported run;
\* the lines run only on the way to status completed.
\* Both are computed from the user row as the task's select loaded it, and the
\* UPDATE writes the computed values.
ImportUserTotals(totals, imp, status) ==
  IF status = "completed"
  THEN [totals EXCEPT
          ![imp.user_id].total_runs = imp.seen_totals[1].total_runs + 1,
          ![imp.user_id].total_distance_meters =
             imp.seen_totals[1].total_distance_meters + imp.activity[1].distance_meters]
  ELSE totals

\* The rows of the task's transaction as db.commit() stores them.
ImportedSession(imp) == [user_id |-> imp.user_id, course_id |-> None, status |-> "imported"]

ImportedRecord(imp, i, sid) ==
  [user_id |-> imp.user_id, session_id |-> sid, course_id |-> imp.course_match,
   distance_meters |-> imp.activity[1].distance_meters,
   duration_seconds |-> imp.activity[1].duration_seconds,
   avg_pace_seconds_per_km |->
     Some((imp.activity[1].duration_seconds * 1000) \div imp.activity[1].distance_meters),
   route_geometry |-> None,
   course_completed |-> IF imp.course_match # None THEN Some(TRUE) ELSE None,
   source |-> imp.source, external_import_id |-> Some(i)]

\* db.commit() of the task's session: everything flushed so far becomes visible.
ImportCommitStore(i, status) ==
  LET imp == external_imports[i] IN
  /\ run_sessions' = IF imp.tx_run THEN Append(run_sessions, ImportedSession(imp))
                     ELSE run_sessions
  /\ run_records' = IF imp.tx_run
                    THEN Append(run_records, ImportedRecord(imp, i, Len(run_sessions) + 1))
                    ELSE run_records
  /\ external_imports' = [external_imports EXCEPT
       ![i].pc = IF status = "completed" /\ imp.course_match # None THEN "rank"
                 ELSE "done",
       ![i].status = status, ![i].tx_run = FALSE,
       ![i].activity = None, ![i].seen_totals = None,
       ![i].committed = [status |-> status, error_message |-> imp.error_message,
                         run_record_id |-> IF imp.tx_run THEN Some(Len(run_records) + 1)
                                           ELSE None]]
  /\ users' = ImportUserTotals(users, imp, status)
  /\ UNCHANGED <<rest, requests, run_chunks, rankings, course_stats, tasks, courses>>

\* process_import, lines 173-186: user totals, db.commit().
ImportCommit(i) ==
  /\ external_imports[i].pc = "commit"
  /\ ImportCommitStore(i, external_imports[i].status)

\* process_import, lines 195-204: recalculate_course_ranking awaited after the
\* commit; its select of the Ranking row.
ImportRankingLoad(i) ==
  LET imp == external_imports[i]
      rid == imp.committed.run_record_id[1] IN
  /\ imp.pc = "rank"
  /\ external_imports' =
       IF RankingRecord(run_records, rid) = None
       THEN [external_imports EXCEPT ![i].pc = "done"]
       ELSE [external_imports EXCEPT
               ![i].pc = "rank_write",
               ![i].loaded = LoadRanking(rankings, imp.course_match[1], imp.user_id)]
  /\ UNCHANGED <<rest, post, requests, run_sessions, run_chunks, run_records>>

\* ... and its upsert, the ranks and its commit.
ImportRankingWrite(i) ==
  LET imp == external_imports[i]
      rid == imp.committed.run_record_id[1] IN
  /\ imp.pc = "rank_write"
  /\ rankings' \in WriteRanking(rankings, courses, imp.course_match[1], imp.user_id,
                                run_records[rid], rid, imp.loaded)
  /\ external_imports' = [external_imports EXCEPT ![i].pc = "done", ![i].loaded = None]
  /\ UNCHANGED <<rest, requests, run_sessions, run_chunks, run_records, users,
                 course_stats, tasks, courses>>

\* process_import, lines 206-210: except Exception: status = "failed",
\* error_message = str(e), db.commit().
ImportExcept(i) ==
  /\ external_imports[i].pc = "except"
  /\ ImportCommitStore(i, "failed")

\* One step of the background task _run_import_in_background of import i.
ImportStep(i) ==
  \/ ImportStart(i)
  \/ ImportParse(i)
  \/ ImportCreateRun(i)
  \/ \E o \in MatchOutcomes : ImportMatch(i, o)
  \/ ImportCommit(i)
  \/ ImportExcept(i)
  \/ ImportRankingLoad(i)
  \/ ImportRankingWrite(i)

\* ------------------------------------------------------ course_service.py
\* a / b as a fraction in lowest terms.
RECURSIVE Gcd(_, _)
Gcd(a, b) == IF b = 0 THEN a ELSE Gcd(b, a % b)

Frac(a, b) == [n |-> a \div Gcd(a, b), d |-> b \div Gcd(a, b)]
FracAdd(x, y) == Frac(x.n * y.d + y.n * x.d, x.d * y.d)
FracLess(x, y) == x.n * y.d < y.n * x.d

\* _compute_difficulty, lines 576-600: ten times the weighted score, that is
\* 3 dist_score + 3 elev_score + 2 grad_score + 2 comp_score. completion_rate
\* is None or a fraction num / den.
Score10(distance_meters, elevation_gain_meters, completion_rate) ==
  LET dist3 == Frac(3 * Min({distance_meters, 10000}), 100)
      elev3 == Frac(Min({elevation_gain_meters, 300}), 1)
      grad2 == IF distance_meters > 0
               THEN Frac(2 * Min({5000 * elevation_gain_meters, 300 * distance_meters}),
                         3 * distance_meters)
               ELSE Frac(0, 1)
      comp2 == IF completion_rate # None
               THEN Frac(200 * (completion_rate[1].den - completion_rate[1].num),
                         completion_rate[1].den)
               ELSE Frac(100, 1)
  IN FracAdd(FracAdd(dist3, elev3), FracAdd(grad2, comp2))

\* The buckets with a score of exactly 33 or 66 put into the easier one.
BucketInclusive(score10) ==
  IF ~FracLess(Frac(330, 1), score10) THEN "easy"
  ELSE IF ~FracLess(Frac(660, 1), score10) THEN "medium"
  ELSE "hard"

\* _compute_difficulty, lines 602-607.
Bucket(score10) ==
  IF FracLess(score10, Frac(330, 1)) THEN "easy"
  ELSE IF FracLess(score10, Frac(660, 1)) THEN "medium"
  ELSE "hard"

\* _compute_difficulty.
ComputeDifficulty(distance_meters, elevation_gain_meters, completion_rate) ==
  Bucket(Score10(distance_meters, elevation_gain_meters, completion_rate))

\* The stored courses' distance_meters and elevation_gain_meters.
CourseRow(c) == [distance_meters |-> 5000, elevation_gain_meters |-> 100]

\* create_course, lines 141-144: the difficulty a course is stored with.
CreatedDifficulty(c) ==
  ComputeDifficulty(CourseRow(c).distance_meters, CourseRow(c).elevation_gain_meters, None)

\* ------------------------------------------------------------ specification
ChunkData == [sequence : SeqNums, body : ChunkBodies]

\* chunks_data of a batch request: up to two chunks, in ascending order or
\* repeating a sequence.
BatchInputs ==
  {<<>>} \cup {<<a>> : a \in ChunkData}
    \cup {d \in {<<a, b>> : a, b \in ChunkData} :
            d[2].sequence \in {d[1].sequence, d[1].sequence + 1}}
CourseArgs == {None, Some("c1"), Some("bogus")}
ImportSources == {"gpx_upload"}

\* No run has been finalized: the users' totals are 0, no ranking and no course
\* statistics exist, no task is queued, the courses are stored.
PostInit ==
  /\ users = [u \in Users |-> [total_runs |-> 0, total_distance_meters |-> 0]]
  /\ rankings = <<>>
  /\ course_stats = [c \in Courses |-> None]
  /\ tasks = <<>>
  /\ courses = Courses
  /\ difficulty = [c \in Courses |-> CreatedDifficulty(c)]

\* No run, chunk, record, import or request yet.
RunsInit ==
  /\ run_sessions = <<>>
  /\ run_chunks = <<>>
  /\ run_records = <<>>
  /\ external_imports = <<>>
  /\ requests = <<>>
  /\ PostInit

Init ==
  /\ RunsInit
  /\ refresh_tokens = <<>>
  /\ call = None

Next ==
  \/ \E u \in Users, c \in CourseArgs : CreateSession(u, c)
  \/ \E u \in Users, sid \in SessionIds, q \in SeqNums, b \in ChunkBodies :
       UploadChunk(u, sid, q, b)
  \/ \E u \in Users, sid \in SessionIds, d \in BatchInputs : BatchUploadChunks(u, sid, d)
  \/ \E u \in Users, sid \in SessionIds, b \in CompleteBodies : CompleteSession(u, sid, b)
  \/ \E u \in Users, sid \in SessionIds : RecoverSession(u, sid)
  \/ \E u \in Users, s \in ImportSources, a \in Activities : UploadActivityFile(u, s, a)
  \/ \E i \in 1..Len(external_imports) : ImportStart(i)
  \/ \E i \in 1..Len(external_imports) : ImportParse(i)
  \/ \E i \in 1..Len(external_imports) : ImportCreateRun(i)
  \/ \E i \in 1..Len(external_imports), o \in MatchOutcomes : ImportMatch(i, o)
  \/ \E i \in 1..Len(external_imports) : ImportCommit(i)
  \/ \E i \in 1..Len(external_imports) : ImportExcept(i)
  \/ \E i \in 1..Len(external_imports) : ImportRankingLoad(i)
  \/ \E i \in 1..Len(external_imports) : ImportRankingWrite(i)

Spec == Init /\ [][Next]_vars

\* The background worker runs every queued import task to its end: each import's
\* next step is taken once it stays enabled.
FairSpec ==
  Spec /\ \A i \in 1..MaxRows :
            WF_vars(i \in 1..Len(external_imports) /\ ImportStep(i))

\* ------------------------------------- concurrent chunk requests (run_service.py)
\* Requests of upload_chunk and batch_upload_chunks run interleaved, each in the
\* transaction of its own database session (READ COMMITTED): a statement sees
\* the committed rows and the rows its own transaction has flushed.
MaxRequests == 2

Visible(r) == run_chunks \o requests[r].pending

\* Another open transaction has flushed a row with the same (session_id,
\* sequence): the unique index idx_chunks_session_seq makes the INSERT wait
\* until that transaction ends.
Blocked(r, sid, q) ==
  \E o \in 1..Len(requests) :
    /\ o # r
    /\ \E k \in 1..Len(requests[o].pending) :
         requests[o].pending[k].session_id = sid /\ requests[o].pending[k].sequence = q

\* The request has dealt with data[i]: the loop goes on or the handler returns.
Advance(req) ==
  IF req.op = "batch" /\ req.i < Len(req.data)
  THEN [req EXCEPT !.i = req.i + 1, !.pc = "select"]
  ELSE [req EXCEPT !.pc = "return"]

ReqArrive(op, u, sid, data) ==
  /\ Len(requests) < MaxRequests
  /\ requests' = Append(requests,
       [op |-> op, user_id |-> u, sid |-> sid, data |-> data, pc |-> "start", i |-> 1,
        code |-> "OK", received |-> <<>>, failed |-> <<>>, pending |-> <<>>,
        active |-> TRUE])
  /\ UNCHANGED <<rest, post, run_sessions, run_chunks, run_records, external_imports>>

\* await self._get_active_session(...), allow_completed=True for the batch.
ReqGetSession(r) ==
  LET req == requests[r]
      code == GetActiveSession(run_sessions, req.sid, req.user_id, req.op = "batch") IN
  /\ req.pc = "start"
  /\ requests' = [requests EXCEPT ![r] =
       IF code # "OK" THEN [req EXCEPT !.code = code, !.pc = "return"]
       ELSE IF req.data = <<>> THEN [req EXCEPT !.pc = "return"]
       ELSE [req EXCEPT !.pc = "select"]]
  /\ UNCHANGED <<rest, post, run_sessions, run_chunks, run_records, external_imports>>

\* existing = await db.execute(select(RunChunk)...): a session whose flush has
\* failed raises here (PendingRollbackError), which the batch loop catches.
ReqSelectExisting(r) ==
  LET req == requests[r]
      q == req.data[req.i].sequence IN
  /\ req.pc = "select"
  /\ requests' = [requests EXCEPT ![r] =
       IF ~req.active
       THEN Advance([req EXCEPT !.failed = Append(req.failed, q)])
       ELSE IF ChunkExists(Visible(r), req.sid, q)
       THEN IF req.op = "upload"
            THEN [req EXCEPT !.code = "DUPLICATE_CHUNK", !.pc = "return"]
            ELSE Advance([req EXCEPT !.received = Append(req.received, q)])
       ELSE [req EXCEPT !.pc = "insert"]]
  /\ UNCHANGED <<rest, post, run_sessions, run_chunks, run_records, external_imports>>

\* db.add(chunk); await db.flush(): the INSERT fails on a committed row with the
\* same (session_id, sequence); a failed flush rolls the session's transaction
\* back, with every row it had flushed, and leaves the session inactive.
ReqInsert(r) ==
  LET req == requests[r]
      q == req.data[req.i].sequence IN
  /\ req.pc = "insert"
  /\ ~Blocked(r, req.sid, q)
  /\ requests' = [requests EXCEPT ![r] =
       IF ChunkExists(run_chunks, req.sid, q)
       THEN IF req.op = "upload"
            THEN [req EXCEPT !.code = "IntegrityError", !.pc = "return",
                             !.pending = <<>>, !.active = FALSE]
            ELSE Advance([req EXCEPT !.failed = Append(req.failed, q),
                                     !.pending = <<>>, !.active = FALSE])
       ELSE IF req.op = "upload"
            THEN [req EXCEPT !.pc = "return",
                             !.pending = Append(req.pending,
                                                NewChunk(req.sid, q, req.data[req.i].body))]
            ELSE Advance([req EXCEPT !.received = Append(req.received, q),
                                     !.pending = Append(req.pending,
                                                        NewChunk(req.sid, q, req.data[req.i].body))])]
  /\ UNCHANGED <<rest, post, run_sessions, run_chunks, run_records, external_imports>>

\* The request's session ends: its transaction commits after a handler that
\* returned, and is rolled back after one that raised or whose flush failed.
ReqEnd(r) ==
  LET req == requests[r] IN
  /\ req.pc = "return"
  /\ run_chunks' = IF req.code = "OK" /\ req.active THEN run_chunks \o req.pending
                   ELSE run_chunks
  /\ requests' = [requests EXCEPT ![r] = [req EXCEPT !.pc = "done", !.pending = <<>>]]
  /\ UNCHANGED <<rest, post, run_sessions, run_records, external_imports>>

\* A user's active session is stored; no request is in flight.
ConcInit ==
  /\ run_sessions = CreateSessionResult(<<>>, "u1", None).run_sessions
  /\ run_chunks = <<>>
  /\ run_records = <<>>
  /\ external_imports = <<>>
  /\ requests = <<>>
  /\ PostInit
  /\ refresh_tokens = <<>>
  /\ call = None

ConcNext ==
  \/ \E u \in Users, sid \in SessionIds, q \in SeqNums, b \in ChunkBodies :
       ReqArrive("upload", u, sid, <<[sequence |-> q, body |-> b]>>)
  \/ \E u \in Users, sid \in SessionIds, d \in BatchInputs : ReqArrive("batch", u, sid, d)
  \/ \E r \in 1..Len(requests) : ReqGetSession(r)
  \/ \E r \in 1..Len(requests) : ReqSelectExisting(r)
  \/ \E r \in 1..Len(requests) : ReqInsert(r)
  \/ \E r \in 1..Len(requests) : ReqEnd(r)

ConcSpec == ConcInit /\ [][ConcNext]_vars

\* ---------------------------- api/v1/runs.py: finalization and its tasks
\* The summaries complete_run_session is called with: the two of
\* CompleteBodies, a faster completed run, and 10 km in 25 minutes.
RunBodies ==
  CompleteBodies \cup
  { [distance_meters |-> 5000, duration_seconds |-> 1400,
     avg_pace_seconds_per_km |-> Some(280), coordinates |-> <<Pt(1, 1), Pt(2, 1)>>,
     course_completion |-> Some(TRUE)],
    [distance_meters |-> 10000, duration_seconds |-> 1500,
     avg_pace_seconds_per_km |-> Some(150), coordinates |-> <<Pt(1, 1), Pt(2, 1)>>,
     course_completion |-> Some(TRUE)] }

\* background_tasks.add_task(update_stats_after_run, ...), runs.py 165-171.
StatsTask(rec, rid) ==
  [kind |-> "stats", user_id |-> rec.user_id, run_record_id |-> rid,
   course_id |-> rec.course_id, distance_meters |-> rec.distance_meters,
   pc |-> "queued", loaded |-> None]

\* background_tasks.add_task(recalculate_course_ranking, ...), runs.py 173-179.
RankingTask(rec, rid) ==
  [kind |-> "ranking", user_id |-> rec.user_id, run_record_id |-> rid,
   course_id |-> rec.course_id, distance_meters |-> rec.distance_meters,
   pc |-> "queued", loaded |-> None]

\* complete_run_session, lines 165-179: the tasks it adds.
CompleteTasks(rec, rid) ==
  <<StatsTask(rec, rid)>> \o
  (IF rec.course_id # None /\ rec.course_completed = Some(TRUE)
   THEN <<RankingTask(rec, rid)>> ELSE <<>>)

\* recover_run_session, lines 216-222: the task it adds.
RecoverTasks(rec, rid) == <<StatsTask(rec, rid)>>

\* complete_run_session: complete_session, the request's commit, and the
\* tasks run once the response is sent.
CompleteRunSession(u, sid, body) ==
  LET r == CompleteSessionResult(run_sessions, run_chunks, run_records, u, sid, body, 0) IN
  /\ r.code = "OK"
  /\ Rows + 1 <= MaxRows
  /\ run_sessions' = r.run_sessions
  /\ run_records' = r.run_records
  /\ tasks' = tasks \o CompleteTasks(r.run_records[r.record], r.record)
  /\ UNCHANGED <<rest, requests, run_chunks, external_imports, users, rankings,
                 course_stats, courses>>

\* recover_run_session: recover_session, the request's commit, and the task.
RecoverRunSession(u, sid) ==
  LET r == RecoverSessionResult(run_sessions, run_chunks, run_records, u, sid, 0) IN
  /\ r.code = "OK"
  /\ Rows + 1 <= MaxRows
  /\ run_sessions' = r.run_sessions
  /\ run_records' = r.run_records
  /\ tasks' = tasks \o RecoverTasks(r.run_records[r.record], r.record)
  /\ UNCHANGED <<rest, requests, run_chunks, external_imports, users, rankings,
                 course_stats, courses>>

\* A task that has returned leaves the queue.
Remove(s, t) == SubSeq(s, 1, t - 1) \o SubSeq(s, t + 1, Len(s))

\* update_stats_after_run, line 40: the select of the user row.
StatsTaskLoad(t) ==
  /\ tasks[t].kind = "stats"
  /\ tasks[t].pc = "queued"
  /\ tasks' = [tasks EXCEPT ![t].pc = "loaded",
                            ![t].loaded = Some(users[tasks[t].user_id])]
  /\ UNCHANGED <<rest, requests, run_sessions, run_chunks, run_records, external_imports,
                 users, rankings, course_stats, courses>>

\* update_stats_after_run, lines 40-49: the totals, the course statistics and
\* the commit.
StatsTaskWrite(t) ==
  LET task == tasks[t]
      r == WriteStats(users, course_stats, run_records, courses, task.user_id,
                      task.course_id, task.distance_meters, task.loaded[1]) IN
  /\ task.kind = "stats"
  /\ task.pc = "loaded"
  /\ users' = r.users
  /\ course_stats' = r.course_stats
  /\ tasks' = Remove(tasks, t)
  /\ UNCHANGED <<rest, requests, run_sessions, run_chunks, run_records, external_imports,
                 rankings, courses>>

\* recalculate_course_ranking, lines 44-56 and the select of upsert_ranking.
RankingTaskLoad(t) ==
  LET task == tasks[t] IN
  /\ task.kind = "ranking"
  /\ task.pc = "queued"
  /\ tasks' =
       IF RankingRecord(run_records, task.run_record_id) = None
       THEN Remove(tasks, t)
       ELSE [tasks EXCEPT
               ![t].pc = "loaded",
               ![t].loaded = LoadRanking(rankings, task.course_id[1], task.user_id)]
  /\ UNCHANGED <<rest, requests, run_sessions, run_chunks, run_records, external_imports,
                 users, rankings, course_stats, courses>>

\* recalculate_course_ranking, lines 67-82: the upsert, the ranks, the commit.
RankingTaskWrite(t) ==
  LET task == tasks[t] IN
  /\ task.kind = "ranking"
  /\ task.pc = "loaded"
  /\ rankings' \in WriteRanking(rankings, courses, task.course_id[1], task.user_id,
                                run_records[task.run_record_id], task.run_record_id,
                                task.loaded)
  /\ tasks' = Remove(tasks, t)
  /\ UNCHANGED <<rest, requests, run_sessions, run_chunks, run_records, external_imports,
                 users, course_stats, courses>>

\* ------------------------------------------------------------- deletions
\* delete_import of a finished import by its owner. run_records.external_import_id
\* and external_imports.run_record_id reference each other with no ON DELETE
\* rule: with a RunRecord stored the commit raises on either DELETE and nothing
\* is removed. Without one the import row goes; its position is kept as a
\* row of status deleted.
DeleteImport(u, i) ==
  /\ external_imports[i].pc = "done"
  /\ external_imports[i].user_id = u
  /\ external_imports[i].committed.run_record_id = None
  /\ external_imports' = [external_imports EXCEPT ![i].pc = "deleted"]
  /\ UNCHANGED <<rest, post, requests, run_sessions, run_chunks, run_records>>

\* delete_course by the course's creator: the RunRecords of the course are
\* detached, the course row is deleted, and its rankings and course_stats rows
\* go with it (ON DELETE CASCADE). run_sessions.course_id has no ON DELETE
\* rule: a session on the course makes the DELETE raise. An import task whose
\* flushed record matched the course holds the course row locked until it
\* commits.
DeleteCourse(c) ==
  /\ c \in courses
  /\ \A sid \in 1..Len(run_sessions) : run_sessions[sid].course_id # Some(c)
  /\ \A i \in 1..Len(external_imports) :
       ~(external_imports[i].tx_run /\ external_imports[i].course_match = Some(c))
  /\ run_records' = [k \in 1..Len(run_records) |->
                       IF run_records[k].course_id = Some(c)
                       THEN [run_records[k] EXCEPT !.course_id = None]
                       ELSE run_records[k]]
  /\ rankings' = SelectSeq(rankings, LAMBDA row : row.course_id # c)
  /\ course_stats' = [course_stats EXCEPT ![c] = None]
  /\ courses' = courses \ {c}
  /\ UNCHANGED <<rest, requests, run_sessions, run_chunks, external_imports, users, tasks>>

TaskNext ==
  \/ \E u \in Users, c \in CourseArgs : CreateSession(u, c)
  \/ \E u \in Users, sid \in SessionIds, q \in SeqNums, b \in ChunkBodies :
       UploadChunk(u, sid, q, b)
  \/ \E u \in Users, sid \in SessionIds, b \in RunBodies : CompleteRunSession(u, sid, b)
  \/ \E u \in Users, sid \in SessionIds : RecoverRunSession(u, sid)
  \/ \E u \in Users, s \in ImportSources, a \in Activities : UploadActivityFile(u, s, a)
  \/ \E i \in 1..Len(external_imports) : ImportStart(i)
  \/ \E i \in 1..Len(external_imports) : ImportParse(i)
  \/ \E i \in 1..Len(external_imports) : ImportCreateRun(i)
  \/ \E i \in 1..Len(external_imports), o \in MatchOutcomes : ImportMatch(i, o)
  \/ \E i \in 1..Len(external_imports) : ImportCommit(i)
  \/ \E i \in 1..Len(external_imports) : ImportExcept(i)
  \/ \E i \in 1..Len(external_imports) : ImportRankingLoad(i)
  \/ \E i \in 1..Len(external_imports) : ImportRankingWrite(i)
  \/ \E t \in 1..Len(tasks) : StatsTaskLoad(t)
  \/ \E t \in 1..Len(tasks) : StatsTaskWrite(t)
  \/ \E t \in 1..Len(tasks) : RankingTaskLoad(t)
  \/ \E t \in 1..Len(tasks) : RankingTaskWrite(t)
  \/ \E u \in Users, i \in 1..Len(external_imports) : DeleteImport(u, i)
  \/ \E c \in Courses : DeleteCourse(c)

TaskSpec == Init /\ [][TaskNext]_vars

\* ------------------------------------------------ concurrent import tasks
\* The background tasks of several uploads run interleaved, each in the
\* transaction of its own database session.
MaxImports == 2

ImportsUpload(u, source, activity) ==
  /\ Len(external_imports) < MaxImports
  /\ StoreImport(u, source, activity)

ImportsNext ==
  \/ \E u \in Users, s \in ImportSources, a \in Activities : ImportsUpload(u, s, a)
  \/ \E i \in 1..Len(external_imports) : ImportStart(i)
  \/ \E i \in 1..Len(external_imports) : ImportParse(i)
  \/ \E i \in 1..Len(external_imports) : ImportCreateRun(i)
  \/ \E i \in 1..Len(external_imports), o \in MatchOutcomes : ImportMatch(i, o)
  \/ \E i \in 1..Len(external_imports) : ImportCommit(i)
  \/ \E i \in 1..Len(external_imports) : ImportExcept(i)
  \/ \E i \in 1..Len(external_imports) : ImportRankingLoad(i)
  \/ \E i \in 1..Len(external_imports) : ImportRankingWrite(i)

ImportsSpec == Init /\ [][ImportsNext]_vars

\* ------------------------------------------- the ranking table on its own
\* upsert_ranking and recalculate_ranks applied to the rankings table with
\* arguments from small sets.
MaxUpserts == 4     \* calls of upsert_ranking

RankCourses == {"c1", "c2"}
RankRuns ==
  { [duration_seconds |-> 1500, pace |-> 300, achieved_at |-> 1],
    [duration_seconds |-> 1500, pace |-> 310, achieved_at |-> 2],
    [duration_seconds |-> 1400, pace |-> 280, achieved_at |-> 3] }

RECURSIVE Upserts(_)
Upserts(rows) ==
  IF rows = <<>> THEN 0 ELSE rows[1].run_count + Upserts(Tail(rows))

RankUpsert(course, user, run) ==
  /\ Upserts(rankings) < MaxUpserts
  /\ rankings' = UpsertRanking(rankings, course, user, run.duration_seconds,
                               run.pace, run.achieved_at)
  /\ UNCHANGED <<rest, run_sessions, run_chunks, run_records, external_imports, requests,
                 users, course_stats, tasks, courses>>

RankRecalculate(course) ==
  /\ \E order \in RankOrders(rankings, course) :
       rankings' = RecalculateRanks(rankings, course, order)
  /\ UNCHANGED <<rest, run_sessions, run_chunks, run_records, external_imports, requests,
                 users, course_stats, tasks, courses>>

RankNext ==
  \/ \E c \in RankCourses, u \in Users, run \in RankRuns : RankUpsert(c, u, run)
  \/ \E c \in RankCourses : RankRecalculate(c)

RankSpec == Init /\ [][RankNext]_vars

\* ------------------------------------------------------------------ claims
Owned(sid, u) == sid \in 1..Len(run_sessions) /\ run_sessions[sid].user_id = u
StatusOf(sid) == run_sessions[sid].status
RecordsOf(records, sid) == {i \in 1..Len(records) : records[i].session_id = sid}
RowsOf(chunks, sid, seq) ==
  {i \in 1..Len(chunks) : chunks[i].session_id = sid /\ chunks[i].sequence = seq}
IsPrefix(s, t) == Len(s) <= Len(t) /\ SubSeq(t, 1, Len(s)) = s
IsAscending(s) == \A i, j \in 1..Len(s) : i < j => s[i] < s[j]

\* C1: a session's status changes only active -> completed or active ->
\* recovered, and a completed or recovered session keeps its status and is not
\* finalized again (it gets no further RunRecord).
C1_ForwardOnly ==
  [][\A sid \in 1..Len(run_sessions) :
       /\ run_sessions'[sid].status # StatusOf(sid)
            => StatusOf(sid) = "active"
               /\ run_sessions'[sid].status \in {"completed", "recovered"}
       /\ StatusOf(sid) \in {"completed", "recovered"}
            => RecordsOf(run_records', sid) = RecordsOf(run_records, sid)]_vars

\* C2: at most one RunRecord references any session.
C2_OneRecordPerSession ==
  \A sid \in 1..Len(run_sessions) : Cardinality(RecordsOf(run_records, sid)) <= 1

\* batch_upload_chunks with the stored sequence q among its chunks: the sequence
\* is reported accepted, no stored row changes and one row holds (sid, q).
C3_BatchIdempotent(u, sid, q) ==
  \A d \in BatchInputs :
    (\E k \in 1..Len(d) : d[k].sequence = q) =>
      LET r == BatchUploadResult(run_sessions, run_chunks, u, sid, d) IN
      /\ r.code = "OK"
      /\ q \in Range(r.received)
      /\ q \notin Range(r.failed)
      /\ IsPrefix(run_chunks, r.run_chunks)
      /\ Cardinality(RowsOf(r.run_chunks, sid, q)) = 1

\* C3 as stated: re-submitting a stored (session_id, sequence) adds no row and
\* alters none; batch_upload_chunks reports the sequence accepted and
\* upload_chunk fails with DUPLICATE_CHUNK; one row holds the pair afterwards.
C3_AsStated ==
  \A u \in Users, sid \in 1..Len(run_sessions), q \in SeqNums :
    (Owned(sid, u) /\ ChunkExists(run_chunks, sid, q)) =>
      /\ \A b \in ChunkBodies :
           LET r == UploadChunkResult(run_sessions, run_chunks, u, sid, q, b) IN
           r.code = "DUPLICATE_CHUNK" /\ r.run_chunks = run_chunks
      /\ C3_BatchIdempotent(u, sid, q)

\* C3 amended: re-submitting a stored (session_id, sequence) adds no row for the
\* pair and alters no stored row; batch_upload_chunks reports the sequence
\* accepted; upload_chunk fails with DUPLICATE_CHUNK while the session is active
\* and with INVALID_SESSION_STATE once it is completed or recovered.
C3_Resubmit ==
  \A u \in Users, sid \in 1..Len(run_sessions), q \in SeqNums :
    (Owned(sid, u) /\ ChunkExists(run_chunks, sid, q)) =>
      /\ \A b \in ChunkBodies :
           LET r == UploadChunkResult(run_sessions, run_chunks, u, sid, q, b) IN
           /\ r.code = IF StatusOf(sid) = "active" THEN "DUPLICATE_CHUNK"
                       ELSE "INVALID_SESSION_STATE"
           /\ r.run_chunks = run_chunks
      /\ C3_BatchIdempotent(u, sid, q)

\* A chunk is stored in a session that has since been recovered, so that its
\* re-submission meets a session that is no longer active.
C3_Witness ==
  \E i \in 1..Len(run_chunks) :
    /\ StatusOf(run_chunks[i].session_id) = "recovered"
    /\ RecordsOf(run_records, run_chunks[i].session_id) # {}

\* At most one row is stored for a (session_id, sequence).
C4_AtMostOneRow ==
  \A sid \in 1..Len(run_sessions), q \in SeqNums :
    Cardinality(RowsOf(run_chunks, sid, q)) <= 1

\* A stored chunk is never replaced or removed.
C4_NeverReplaced == [][IsPrefix(run_chunks, run_chunks')]_vars

\* C4: under every interleaving of upload_chunk and batch_upload_chunks requests
\* at most one row is stored for a (session_id, sequence), a stored chunk's
\* content is never replaced, and every sequence a batch request reports as
\* accepted has a stored row when that request finishes.
C4_Concurrent ==
  [][/\ \A sid \in 1..Len(run_sessions), q \in SeqNums :
          Cardinality(RowsOf(run_chunks', sid, q)) <= 1
     /\ IsPrefix(run_chunks, run_chunks')
     /\ \A r \in 1..Len(requests) :
          (requests[r].op = "batch" /\ requests[r].pc = "return"
             /\ requests'[r].pc = "done") =>
            \A k \in 1..Len(requests[r].received) :
              ChunkExists(run_chunks', requests[r].sid, requests[r].received[k])]_vars

\* C5: upload_chunk stores a chunk only in an active session and otherwise
\* fails with INVALID_SESSION_STATE storing nothing; batch_upload_chunks stores
\* chunks only in an active, completed or recovered session and is rejected,
\* storing nothing, for any other status.
C5_StatusGate ==
  \A u \in Users, sid \in 1..Len(run_sessions) :
    Owned(sid, u) =>
      /\ \A q \in SeqNums, b \in ChunkBodies :
           LET r == UploadChunkResult(run_sessions, run_chunks, u, sid, q, b) IN
           IF StatusOf(sid) = "active"
           THEN r.code \in {"OK", "DUPLICATE_CHUNK"}
                /\ (r.code = "OK" <=> r.run_chunks # run_chunks)
           ELSE r.code = "INVALID_SESSION_STATE" /\ r.run_chunks = run_chunks
      /\ \A d \in BatchInputs :
           LET r == BatchUploadResult(run_sessions, run_chunks, u, sid, d) IN
           IF StatusOf(sid) \in {"active", "completed", "recovered"}
           THEN r.code = "OK"
                /\ \A k \in 1..Len(d) : ChunkExists(r.run_chunks, sid, d[k].sequence)
           ELSE r.code = "INVALID_SESSION_STATE" /\ r.run_chunks = run_chunks
                /\ r.received = <<>>

\* Sessions of every status are stored, an imported one among them.
C5_Witness ==
  /\ \E sid \in 1..Len(run_sessions) : StatusOf(sid) = "imported"
  /\ \E sid \in 1..Len(run_sessions) : StatusOf(sid) = "active"

\* C6: complete_session on the caller's active session creates one RunRecord
\* with the client's distance, duration and pace, sets the session completed and
\* returns as missing the ascending list of exactly the sequences below
\* total_chunks that have no stored chunk.
C6_Complete ==
  \A u \in Users, sid \in 1..Len(run_sessions), b \in CompleteBodies, t \in TotalChunks :
    (Owned(sid, u) /\ StatusOf(sid) = "active") =>
      LET r == CompleteSessionResult(run_sessions, run_chunks, run_records, u, sid, b, t)
          rec == r.run_records[Len(r.run_records)] IN
      /\ r.code = "OK"
      /\ Len(r.run_records) = Len(run_records) + 1
      /\ IsPrefix(run_records, r.run_records)
      /\ r.record = Len(r.run_records)
      /\ rec.session_id = sid /\ rec.user_id = u
      /\ rec.distance_meters = b.distance_meters
      /\ rec.duration_seconds = b.duration_seconds
      /\ rec.avg_pace_seconds_per_km = b.avg_pace_seconds_per_km
      /\ r.run_sessions = [run_sessions EXCEPT ![sid].status = "completed"]
      /\ IsAscending(r.missing)
      /\ Range(r.missing) = {q \in 0..(t - 1) : ~ChunkExists(run_chunks, sid, q)}

\* complete_session has run on a session that holds chunk 1 but not chunk 0.
C6_Witness ==
  \E sid \in 1..Len(run_sessions) :
    /\ StatusOf(sid) = "completed"
    /\ RecordsOf(run_records, sid) # {}
    /\ ChunkExists(run_chunks, sid, 1) /\ ~ChunkExists(run_chunks, sid, 0)

\* C7: recover_session on a completed session fails with ALREADY_COMPLETED and
\* on a session without chunks with NO_CHUNKS; either way no RunRecord is
\* created and the session's status stays.
C7_RecoverRejected ==
  \A u \in Users, sid \in 1..Len(run_sessions), t \in TotalChunks :
    Owned(sid, u) =>
      LET r == RecoverSessionResult(run_sessions, run_chunks, run_records, u, sid, t) IN
      /\ StatusOf(sid) = "completed" =>
           /\ r.code = "ALREADY_COMPLETED"
           /\ r.run_records = run_records /\ r.run_sessions = run_sessions
      /\ (StatusOf(sid) # "completed" /\ ServerSequences(run_chunks, sid) = {}) =>
           /\ r.code = "NO_CHUNKS"
           /\ r.run_records = run_records /\ r.run_sessions = run_sessions

\* A completed session that holds chunks, and a session that holds none.
C7_Witness ==
  /\ \E sid \in 1..Len(run_sessions) :
       StatusOf(sid) = "completed" /\ ServerSequences(run_chunks, sid) # {}
  /\ \E sid \in 1..Len(run_sessions) :
       StatusOf(sid) = "active" /\ ServerSequences(run_chunks, sid) = {}

\* The stored chunk of a session with a given sequence.
ChunkAt(sid, q) == run_chunks[CHOOSE i \in RowsOf(run_chunks, sid, q) : TRUE]

RECURSIVE PointsInOrder(_, _)
PointsInOrder(sid, seqs) ==
  IF seqs = <<>> THEN <<>>
  ELSE PointsOf(ChunkAt(sid, Head(seqs))) \o PointsInOrder(sid, Tail(seqs))

C9_NotFound ==
  \A u \in Users, sid \in 1..Len(run_sessions) :
    ~Owned(sid, u) =>
      LET none == Len(run_sessions) + 1 IN
      /\ \A q \in SeqNums, b \in ChunkBodies :
           LET r == UploadChunkResult(run_sessions, run_chunks, u, sid, q, b) IN
           /\ r.code = "NOT_FOUND" /\ r.run_chunks = run_chunks
           /\ r = UploadChunkResult(run_sessions, run_chunks, u, none, q, b)
      /\ \A d \in BatchInputs :
           LET r == BatchUploadResult(run_sessions, run_chunks, u, sid, d) IN
           /\ r.code = "NOT_FOUND" /\ r.run_chunks = run_chunks
           /\ r = BatchUploadResult(run_sessions, run_chunks, u, none, d)
      /\ \A b \in CompleteBodies, t \in TotalChunks :
           LET r == CompleteSessionResult(run_sessions, run_chunks, run_records, u, sid, b, t) IN
           /\ r.code = "NOT_FOUND"
           /\ r.run_sessions = run_sessions /\ r.run_records = run_records
           /\ r = CompleteSessionResult(run_sessions, run_chunks, run_records, u, none, b, t)
      /\ \A t \in TotalChunks :
           LET r == RecoverSessionResult(run_sessions, run_chunks, run_records, u, sid, t) IN
           /\ r.code = "NOT_FOUND"
           /\ r.run_sessions = run_sessions /\ r.run_records = run_records
           /\ r = RecoverSessionResult(run_sessions, run_chunks, run_records, u, none, t)

\* Sessions of u1 are stored in every app status, one of them holding chunks.
C9_Witness ==
  /\ \E sid \in 1..Len(run_sessions) :
       run_sessions[sid].user_id = "u1" /\ StatusOf(sid) = "completed"
       /\ ServerSequences(run_chunks, sid) # {}
  /\ \E sid \in 1..Len(run_sessions) :
       run_sessions[sid].user_id = "u1" /\ StatusOf(sid) = "active"

RecordsOfImport(i) ==
  {k \in 1..Len(run_records) : run_records[k].external_import_id = Some(i)}

\* The imports of user u whose committed status is completed.
CompletedImports(u) ==
  {i \in 1..Len(external_imports) :
     external_imports[i].user_id = u /\ external_imports[i].committed.status = "completed"}

RECURSIVE SumDistance(_)
SumDistance(ks) ==
  IF ks = {} THEN 0
  ELSE LET k == CHOOSE x \in ks : TRUE IN
       run_records[k].distance_meters + SumDistance(ks \ {k})

\* C11: an import that ended failed has its error_message set and has left no
\* other write: no RunRecord back-linked to it, no run_record_id, no imported
\* RunSession, and the user's totals without any contribution of it.
C11_FailedLeavesNothing ==
  /\ \A i \in 1..Len(external_imports) :
       external_imports[i].committed.status = "failed" =>
         /\ external_imports[i].committed.error_message # None
         /\ external_imports[i].committed.run_record_id = None
         /\ RecordsOfImport(i) = {}
  /\ Cardinality({sid \in 1..Len(run_sessions) : run_sessions[sid].status = "imported"})
       = Cardinality(UNION {CompletedImports(u) : u \in Users})
  /\ \A u \in Users : users[u].total_runs = Cardinality(CompletedImports(u))

\* C12: whenever an import is committed as completed, exactly one RunRecord is
\* back-linked to it, stamped with the import's source and named by its
\* run_record_id, on a RunSession of status imported that no other record
\* uses; and each user's total_runs and total_distance_meters hold exactly one
\* contribution of each completed import of that user.
C12_CompletedIsWhole ==
  /\ \A i \in 1..Len(external_imports) :
       external_imports[i].committed.status = "completed" =>
         /\ Cardinality(RecordsOfImport(i)) = 1
         /\ \A k \in RecordsOfImport(i) :
              /\ external_imports[i].committed.run_record_id = Some(k)
              /\ run_records[k].source = external_imports[i].source
              /\ run_records[k].user_id = external_imports[i].user_id
              /\ run_records[k].session_id \in 1..Len(run_sessions)
              /\ run_sessions[run_records[k].session_id].status = "imported"
              /\ run_sessions[run_records[k].session_id].user_id = external_imports[i].user_id
              /\ Cardinality(RecordsOf(run_records, run_records[k].session_id)) = 1
  /\ \A u \in Users :
       /\ users[u].total_runs = Cardinality(CompletedImports(u))
       /\ users[u].total_distance_meters =
            SumDistance(UNION {RecordsOfImport(i) : i \in CompletedImports(u)})

\* ------------------------------------------------- rankings: upsert and ranks
\* C14: upsert_ranking with no row of the user on the course appends one row
\* with best_duration_seconds = duration, best_pace_seconds_per_km = pace,
\* run_count = 1 and achieved_at = finished_at; with a row it adds 1 to
\* run_count and overwrites the two bests and achieved_at exactly when
\* duration < best_duration_seconds; every other row stays as it was.
C14_Upsert ==
  \A c \in RankCourses, u \in Users, run \in RankRuns :
    LET existing == ExistingRanking(rankings, c, u)
        after == UpsertRanking(rankings, c, u, run.duration_seconds, run.pace,
                               run.achieved_at)
    IN
    IF existing = None
    THEN /\ Len(after) = Len(rankings) + 1
         /\ SubSeq(after, 1, Len(rankings)) = rankings
         /\ after[Len(after)].course_id = c
         /\ after[Len(after)].user_id = u
         /\ after[Len(after)].best_duration_seconds = run.duration_seconds
         /\ after[Len(after)].best_pace_seconds_per_km = run.pace
         /\ after[Len(after)].run_count = 1
         /\ after[Len(after)].achieved_at = run.achieved_at
    ELSE LET k == existing[1]
             old == rankings[k]
         IN
         /\ Len(after) = Len(rankings)
         /\ \A i \in 1..Len(rankings) : i # k => after[i] = rankings[i]
         /\ after[k].run_count = old.run_count + 1
         /\ after[k].course_id = c /\ after[k].user_id = u
         /\ after[k].rank = old.rank
         /\ IF run.duration_seconds < old.best_duration_seconds
            THEN /\ after[k].best_duration_seconds = run.duration_seconds
                 /\ after[k].best_pace_seconds_per_km = run.pace
                 /\ after[k].achieved_at = run.achieved_at
            ELSE /\ after[k].best_duration_seconds = old.best_duration_seconds
                 /\ after[k].best_pace_seconds_per_km = old.best_pace_seconds_per_km
                 /\ after[k].achieved_at = old.achieved_at

\* A row that was upserted twice: run_count 2, the best of 1400 s that replaced
\* an earlier one, next to a row of another user.
C14_Witness ==
  /\ Len(rankings) = 2
  /\ rankings[1].run_count = 2
  /\ rankings[1].best_duration_seconds = 1400
  /\ rankings[1].achieved_at = 3
  /\ rankings[2].best_duration_seconds = 1500

\* C17: recalculate_ranks on a course with N rows leaves those rows with the
\* ranks 1..N, each once, a shorter best_duration_seconds never ranked after a
\* longer one, nothing but rank written, and the rows of other courses as they
\* were.
C17_Ranks ==
  \A c \in RankCourses :
    \A order \in RankOrders(rankings, c) :
      LET after == RecalculateRanks(rankings, c, order)
          S == CourseRows(rankings, c)
      IN
      /\ Len(after) = Len(rankings)
      /\ {after[i].rank : i \in S} = {Some(n) : n \in 1..Cardinality(S)}
      /\ \A i, j \in S :
           rankings[i].best_duration_seconds < rankings[j].best_duration_seconds
             => after[i].rank[1] < after[j].rank[1]
      /\ \A i \in S : after[i] = [rankings[i] EXCEPT !.rank = after[i].rank]
      /\ \A i \in 1..Len(rankings) : i \notin S => after[i] = rankings[i]

\* Course c1 holds two rows ranked 1 and 2 by their bests, the later inserted
\* row first, and course c2 a row of its own.
C17_Witness ==
  /\ Len(rankings) = 3
  /\ rankings[1].course_id = "c1" /\ rankings[1].rank = Some(2)
  /\ rankings[1].best_duration_seconds = 1500
  /\ rankings[2].course_id = "c2"
  /\ rankings[3].course_id = "c1" /\ rankings[3].rank = Some(1)
  /\ rankings[3].best_duration_seconds = 1400

\* C18: of two rows of a course with equal best_duration_seconds, the one
\* upserted first has the lower rank whenever both are ranked.
C18_TieByInsertion ==
  \A i, j \in 1..Len(rankings) :
    ( /\ i < j
      /\ rankings[i].course_id = rankings[j].course_id
      /\ rankings[i].best_duration_seconds = rankings[j].best_duration_seconds
      /\ rankings[i].rank # None /\ rankings[j].rank # None )
    => rankings[i].rank[1] < rankings[j].rank[1]

\* ------------------------------------------- finalized runs and their tasks
\* The record is one the speed-anomaly rules flag.
Flagged(k) == IsFlagged(run_records[k].distance_meters, run_records[k].duration_seconds)

\* Every queued task has returned and every import task has ended.
TasksFinished ==
  /\ tasks = <<>>
  /\ \A i \in 1..Len(external_imports) : external_imports[i].pc \in {"done", "deleted"}

\* The course-completed RunRecords of user u on course c.
CompletedBy(c, u) == {k \in CompletedOn(run_records, c) : run_records[k].user_id = u}

\* C13: no Ranking row holds the time of a flagged run, and no CourseStats row
\* counts a flagged run among its total_runs.
C13_FlaggedExcluded ==
  /\ \A i \in 1..Len(rankings) : ~Flagged(rankings[i].achieved_at)
  /\ \A c \in Courses :
       course_stats[c] # None =>
         course_stats[c][1].total_runs <=
           Cardinality({k \in CompletedOn(run_records, c) : ~Flagged(k)})

\* C15: once every ranking task has finished, each Ranking row's
\* best_duration_seconds is the minimum duration over the course-completed
\* RunRecords of its user on its course.
C15_BestIsMinimum ==
  TasksFinished =>
    \A i \in 1..Len(rankings) :
      LET S == CompletedBy(rankings[i].course_id, rankings[i].user_id) IN
      /\ S # {}
      /\ rankings[i].best_duration_seconds = Min({run_records[k].duration_seconds : k \in S})

\* C16: every Ranking row has a course-completed RunRecord of its user on its
\* course that is not flagged and whose duration is the row's
\* best_duration_seconds.
C16_RankingBacked ==
  \A i \in 1..Len(rankings) :
    \E k \in CompletedBy(rankings[i].course_id, rankings[i].user_id) :
      /\ ~Flagged(k)
      /\ run_records[k].duration_seconds = rankings[i].best_duration_seconds

\* C19: once every post-commit task has finished, for every stored course the
\* CourseStats row has total_runs equal to the number of completed, non-flagged
\* RunRecords of the course and completion_rate equal to total_runs over the
\* number of all RunRecords of the course, 0 when there are none; a course
\* without a CourseStats row has no RunRecord.
C19_CourseStats ==
  TasksFinished =>
    \A c \in courses :
      LET n == Cardinality({k \in CompletedOn(run_records, c) : ~Flagged(k)})
          m == Cardinality(AttemptsOn(run_records, c)) IN
      IF course_stats[c] = None THEN m = 0
      ELSE /\ course_stats[c][1].total_runs = n
           /\ IF m = 0 THEN course_stats[c][1].completion_rate.num = 0
              ELSE course_stats[c][1].completion_rate.num * m =
                     n * course_stats[c][1].completion_rate.den
           /\ course_stats[c][1].completion_rate.num <=
                course_stats[c][1].completion_rate.den

\* C20: for every stored RunRecord, executing recalculate_course_ranking a
\* second time with the record's arguments leaves the Ranking rows as the
\* first execution left them, and executing update_stats_after_run a second
\* time leaves the users' totals and the CourseStats rows as the first left
\* them.
C20_Idempotent ==
  \A k \in 1..Len(run_records) :
    LET rec == run_records[k] IN
    /\ (rec.course_id # None /\ rec.course_completed = Some(TRUE)) =>
         \A first \in RecalculateCourseRanking(rankings, run_records, courses,
                                               rec.course_id[1], rec.user_id, k) :
           \A second \in RecalculateCourseRanking(first, run_records, courses,
                                                  rec.course_id[1], rec.user_id, k) :
             second = first
    /\ LET first == UpdateStatsAfterRun(users, course_stats, run_records, courses,
                                        rec.user_id, rec.course_id, rec.distance_meters)
           second == UpdateStatsAfterRun(first.users, first.course_stats, run_records,
                                         courses, rec.user_id, rec.course_id,
                                         rec.distance_meters)
       IN second = first

\* ------------------------------------------------- what a RunRecord holds
\* The RunRecords stored for user u.
RecordsOfUser(u) == {k \in 1..Len(run_records) : run_records[k].user_id = u}

\* C26: every stored RunRecord has duration_seconds >= 0 and distance_meters
\* >= 0 and, when its distance is positive, avg_pace_seconds_per_km equal to
\* the floor of duration / (distance / 1000) of its own stored values.
C26_RecordConsistent ==
  \A k \in 1..Len(run_records) :
    /\ run_records[k].duration_seconds >= 0
    /\ run_records[k].distance_meters >= 0
    /\ run_records[k].distance_meters > 0 =>
         run_records[k].avg_pace_seconds_per_km =
           Some((run_records[k].duration_seconds * 1000) \div run_records[k].distance_meters)

\* C29: once every stats task and every import task has finished, each user's
\* total_runs is the number of the user's RunRecords and total_distance_meters
\* the sum of their distances.
C29_TotalsCountEveryRun ==
  TasksFinished =>
    \A u \in Users :
      /\ users[u].total_runs = Cardinality(RecordsOfUser(u))
      /\ users[u].total_distance_meters = SumDistance(RecordsOfUser(u))

\* C30: a RunRecord with course_completed = true has a course_id, and a
\* RunRecord without a course_id has no course_completed.
C30_CompletedHasCourse ==
  \A k \in 1..Len(run_records) :
    /\ run_records[k].course_completed = Some(TRUE) => run_records[k].course_id # None
    /\ run_records[k].course_id = None => run_records[k].course_completed = None

\* ------------------------------------------ _compute_difficulty, called alone
Distances == {0, 500, 1000, 2000, 3000, 5000, 10000, 15000, 20000}
Gains == {0, 10, 50, 100, 200, 300, 500, 600}
Rates == {None} \cup {Some([num |-> r[1], den |-> r[2]]) :
                        r \in {<<0, 1>>, <<1, 3>>, <<1, 2>>, <<2, 3>>, <<1, 1>>}}

DifficultyInit ==
  /\ RunsInit
  /\ refresh_tokens = <<>>
  /\ \E d \in Distances, g \in Gains, r \in Rates :
       call = [fn |-> "_compute_difficulty",
               args |-> [distance_meters |-> d, elevation_gain_meters |-> g,
                         completion_rate |-> r],
               result |-> None]

DifficultyCall ==
  /\ call.result = None
  /\ call' = [call EXCEPT !.result =
                Some(ComputeDifficulty(call.args.distance_meters,
                                       call.args.elevation_gain_meters,
                                       call.args.completion_rate))]
  /\ UNCHANGED <<run_sessions, run_chunks, run_records, external_imports, requests,
                 post, difficulty, refresh_tokens>>

DifficultySpec == DifficultyInit /\ [][DifficultyCall]_vars

\* easy 0, medium 1, hard 2.
Harder(b) == IF b = "easy" THEN 0 ELSE IF b = "medium" THEN 1 ELSE 2

\* The call has returned.
DifficultyReturned == call # None /\ call.fn = "_compute_difficulty" /\ call.result # None

\* The parts of C28 that do not speak of the elevation gain above 300 m.
DifficultyBuckets ==
  LET a == call.args
      res == call.result[1]
      score == Score10(a.distance_meters, a.elevation_gain_meters, a.completion_rate)
  IN /\ res = "easy" <=> FracLess(score, Frac(330, 1))
     /\ res = "medium" <=> (~FracLess(score, Frac(330, 1)) /\ FracLess(score, Frac(660, 1)))
     /\ res = "hard" <=> ~FracLess(score, Frac(660, 1))
     /\ (a.elevation_gain_meters = 0 /\ a.distance_meters >= 10000) =>
          \A d2 \in Distances :
            d2 >= 10000 => ComputeDifficulty(d2, 0, a.completion_rate) = res
     /\ a.distance_meters = 0 => res \in {"easy", "medium", "hard"}
     /\ a.completion_rate # None =>
          \A r2 \in Rates \ {None} :
            r2[1].num * a.completion_rate[1].den <= a.completion_rate[1].num * r2[1].den =>
              Harder(ComputeDifficulty(a.distance_meters, a.elevation_gain_meters, r2))
                >= Harder(res)

\* C28 as stated: _compute_difficulty maps the weighted score to easy below
\* 33, medium below 66 and hard otherwise; the result does not change when
\* the distance grows beyond 10 km on a flat course nor when the gain grows
\* beyond 300 m; a zero distance yields a bucket; a lower completion_rate
\* never yields an easier bucket.
C28_Original ==
  DifficultyReturned =>
    /\ DifficultyBuckets
    /\ call.args.elevation_gain_meters >= 300 =>
         \A g2 \in Gains :
           g2 >= 300 =>
             ComputeDifficulty(call.args.distance_meters, g2, call.args.completion_rate)
               = call.result[1]

\* C28: _compute_difficulty maps the weighted score to easy below 33, medium
\* below 66 and hard otherwise; the result does not change when the distance
\* grows beyond 10 km on a flat course; it does not change when the gain
\* grows beyond 300 m provided the distance is zero or at most 5000 m, where
\* the gradient score has reached its cap at 300 m of gain; a zero distance
\* yields a bucket; a lower completion_rate never yields an easier bucket.
C28_Difficulty ==
  DifficultyReturned =>
    /\ DifficultyBuckets
    /\ (call.args.elevation_gain_meters >= 300 /\ call.args.distance_meters <= 5000) =>
         \A g2 \in Gains :
           g2 >= 300 =>
             ComputeDifficulty(call.args.distance_meters, g2, call.args.completion_rate)
               = call.result[1]

\* A call with 600 m of gain over 2000 m whose score is exactly 66 has returned.
C28_Witness ==
  /\ DifficultyReturned
  /\ call.args.distance_meters = 2000
  /\ call.args.elevation_gain_meters = 600
  /\ call.args.completion_rate = Some([num |-> 1, den |-> 2])
  /\ call.result = Some("hard")

\* --------------------------------------------- difficulty after the statistics
\* C21: a step that writes a CourseStats row whose completion_rate differs
\* from the one stored before (or that writes the course's first row) leaves
\* Course.difficulty equal to the bucket _compute_difficulty gives for the
\* course's distance, its elevation gain and the new completion_rate.
C21_DifficultyFollowsRate ==
  [][\A c \in Courses :
       (/\ course_stats'[c] # None
        /\ \/ course_stats[c] = None
           \/ course_stats[c][1].completion_rate # course_stats'[c][1].completion_rate)
       => difficulty'[c] = ComputeDifficulty(CourseRow(c).distance_meters,
                                             CourseRow(c).elevation_gain_meters,
                                             Some(course_stats'[c][1].completion_rate))]_vars

\* --------------------------------------------------------- auth_service.py
MaxTokens == 4

\* store_refresh_token, lines 186-201. expired is "expires_at <= now".
NewRefreshToken(user) == [user_id |-> user, is_revoked |-> FALSE, expired |-> FALSE]

StoreRefreshToken(rows, user) == Append(rows, NewRefreshToken(user))

\* validate_and_rotate_refresh_token, lines 209-214: the rows the SELECT
\* returns, those with expires_at > now.
LiveTokens(rows) == {i \in 1..Len(rows) : ~rows[i].expired}

\* Lines 225-229: UPDATE refresh_tokens SET is_revoked = true WHERE user_id = user.
RevokeAll(rows, user) ==
  [i \in 1..Len(rows) |->
     IF rows[i].user_id = user THEN [rows[i] EXCEPT !.is_revoked = TRUE] ELSE rows[i]]

\* The request's session: the handler's flushed writes are committed when it
\* returns and rolled back when it raises.
GetDb(before, flushed, raised) == IF raised THEN before ELSE flushed

\* validate_and_rotate_refresh_token. raw is the row whose token_hash the
\* presented token verifies against, 0 when there is none.
ValidateAndRotateRefreshToken(rows, raw) ==
  IF raw \notin LiveTokens(rows)
  THEN [code |-> "AUTH_EXPIRED", issued |-> None, flushed |-> rows, raised |-> TRUE]
  ELSE IF rows[raw].is_revoked
  THEN [code |-> "AUTH_EXPIRED", issued |-> None,
        flushed |-> RevokeAll(rows, rows[raw].user_id), raised |-> TRUE]
  ELSE [code |-> "OK", issued |-> Some(Len(rows) + 1),
        flushed |-> StoreRefreshToken([rows EXCEPT ![raw].is_revoked = TRUE],
                                      rows[raw].user_id),
        raised |-> FALSE]

\* POST /auth/refresh: the response and the table after the request.
RefreshTokenResult(rows, raw) ==
  LET r == ValidateAndRotateRefreshToken(rows, raw) IN
  [code |-> r.code, issued |-> r.issued,
   refresh_tokens |-> GetDb(rows, r.flushed, r.raised)]

\* login, line 286: a login stores a refresh token for the user.
Login(u) ==
  /\ Len(refresh_tokens) < MaxTokens
  /\ refresh_tokens' = StoreRefreshToken(refresh_tokens, u)
  /\ UNCHANGED <<run_sessions, run_chunks, run_records, external_imports, requests,
                 post, difficulty, call>>

RefreshToken(raw) ==
  LET r == RefreshTokenResult(refresh_tokens, raw) IN
  /\ r.code = "OK" => Len(refresh_tokens) < MaxTokens
  /\ refresh_tokens' = r.refresh_tokens
  /\ UNCHANGED <<run_sessions, run_chunks, run_records, external_imports, requests,
                 post, difficulty, call>>

\* Time passes the expires_at of the oldest token that had not expired.
TokenExpires(i) ==
  /\ ~refresh_tokens[i].expired
  /\ \A j \in 1..(i - 1) : refresh_tokens[j].expired
  /\ refresh_tokens' = [refresh_tokens EXCEPT ![i].expired = TRUE]
  /\ UNCHANGED <<run_sessions, run_chunks, run_records, external_imports, requests,
                 post, difficulty, call>>

AuthNext ==
  \/ \E u \in Users : Login(u)
  \/ \E raw \in 0..Len(refresh_tokens) : RefreshToken(raw)
  \/ \E i \in 1..Len(refresh_tokens) : TokenExpires(i)

AuthSpec == Init /\ [][AuthNext]_vars

\* C27: presenting a refresh token that has already been rotated fails with
\* AUTH_EXPIRED, issues no new pair, and leaves every RefreshToken row of the
\* token's user revoked, the token issued by the earlier rotation included.
C27_ReuseRevokesAll ==
  \A raw \in 1..Len(refresh_tokens) :
    refresh_tokens[raw].is_revoked =>
      LET r == RefreshTokenResult(refresh_tokens, raw) IN
      /\ r.code = "AUTH_EXPIRED"
      /\ r.issued = None
      /\ \A i \in 1..Len(r.refresh_tokens) :
           r.refresh_tokens[i].user_id = refresh_tokens[raw].user_id =>
             r.refresh_tokens[i].is_revoked

\* ----------------------------------------- speed_anomaly_service.analyze_run
\* _MIN_SPLIT_PACE_SEC_PER_KM and _MAX_INSTANTANEOUS_SPEED_MS in tenths of m/s.
MinSplitPace == 120
MaxInstantaneousSpeedTenths == 125

\* Python's truth value of an optional number: None and 0 are false.
Truthy(x) == x # None /\ x[1] # 0

\* analyze_run, lines 64-81: the average-speed check. Speeds are in tenths of
\* m/s; actual_avg = max(distance / duration, avg_speed_ms).
AvgSpeedExceeds(distance_meters, duration_seconds, avg_speed_ms) ==
  \/ distance_meters * 10 > SpeedLimitTenths(distance_meters) * duration_seconds
  \/ /\ Truthy(avg_speed_ms)
     /\ avg_speed_ms[1] > 0
     /\ avg_speed_ms[1] > SpeedLimitTenths(distance_meters)

\* analyze_run, lines 64-109: which of the four checks append a reason.
AnomalyReasons(distance_meters, duration_seconds, avg_speed_ms, max_speed_ms, splits, best_pace_seconds_per_km) ==
  {r \in {"avg", "max", "best", "split"} :
     \/ r = "avg" /\ AvgSpeedExceeds(distance_meters, duration_seconds, avg_speed_ms)
     \/ r = "max" /\ Truthy(max_speed_ms) /\ max_speed_ms[1] > MaxInstantaneousSpeedTenths
     \/ r = "best" /\ Truthy(best_pace_seconds_per_km)
                   /\ best_pace_seconds_per_km[1] < MinSplitPace
     \/ r = "split" /\ splits # None
                    /\ \E k \in 1..Len(splits[1]) :
                         splits[1][k] > 0 /\ splits[1][k] < MinSplitPace}

\* analyze_run. confidence is in tenths; splits is None or the sequence of the
\* splits' pace_seconds_per_km.
AnalyzeRun(distance_meters, duration_seconds, avg_speed_ms, max_speed_ms, splits, best_pace_seconds_per_km) ==
  LET reasons == AnomalyReasons(distance_meters, duration_seconds, avg_speed_ms,
                                max_speed_ms, splits, best_pace_seconds_per_km) IN
  IF duration_seconds <= 0 \/ distance_meters <= 0
  THEN [is_flagged |-> FALSE, confidence |-> 0]
  ELSE IF reasons # {}
  THEN [is_flagged |-> TRUE, confidence |-> Min({10, Cardinality(reasons) * 4})]
  ELSE [is_flagged |-> FALSE, confidence |-> 0]

AnomalyInit ==
  /\ RunsInit
  /\ refresh_tokens = <<>>
  /\ \E d \in {0, 1000, 5000}, t \in {0, 100, 1000},
        a \in {None, Some(0), Some(50), Some(110)},
        m \in {None, Some(100), Some(130)},
        sp \in {None, Some(<<>>), Some(<<0>>), Some(<<300, 100, 90>>), Some(<<300, 310>>)},
        b \in {None, Some(0), Some(100), Some(300)} :
       call = [fn |-> "analyze_run",
               args |-> [distance_meters |-> d, duration_seconds |-> t,
                         avg_speed_ms |-> a, max_speed_ms |-> m, splits |-> sp,
                         best_pace_seconds_per_km |-> b],
               result |-> None]

AnalyzeRunCall ==
  /\ call.result = None
  /\ call' = [call EXCEPT !.result =
                Some(AnalyzeRun(call.args.distance_meters, call.args.duration_seconds,
                                call.args.avg_speed_ms, call.args.max_speed_ms,
                                call.args.splits, call.args.best_pace_seconds_per_km))]
  /\ UNCHANGED <<run_sessions, run_chunks, run_records, external_imports, requests,
                 post, difficulty, refresh_tokens>>

AnomalySpec == AnomalyInit /\ [][AnalyzeRunCall]_vars

\* The four conditions of C22 on the arguments of the call, as the claim words
\* them. The average speed is the larger of distance / duration (when the
\* duration is positive) and the reported avg_speed_ms.
C22_Triggered ==
  LET a == call.args IN
  {r \in {"avg", "max", "best", "split"} :
     \/ r = "avg" /\ \/ /\ a.duration_seconds > 0
                        /\ a.distance_meters * 10 >
                             SpeedLimitTenths(a.distance_meters) * a.duration_seconds
                     \/ /\ a.avg_speed_ms # None
                        /\ a.avg_speed_ms[1] > SpeedLimitTenths(a.distance_meters)
     \/ r = "max" /\ a.max_speed_ms # None /\ a.max_speed_ms[1] > 125
     \/ r = "best" /\ a.best_pace_seconds_per_km # None
                   /\ a.best_pace_seconds_per_km[1] < 120
     \/ r = "split" /\ a.splits # None
                    /\ \E k \in 1..Len(a.splits[1]) : a.splits[1][k] < 120}

\* C22: for every input, runs with zero duration or zero distance and splits
\* with pace 0 included, analyze_run flags the run exactly when the average
\* speed exceeds the limit of its distance bracket, or max_speed exceeds
\* 12.5 m/s, or best_pace is below 120 s/km, or some split's pace is below
\* 120 s/km; and confidence is min(1.0, 0.4 x the number of those that hold).
C22_FlagIff ==
  (call # None /\ call.fn = "analyze_run" /\ call.result # None) =>
    /\ call.result[1].is_flagged <=> C22_Triggered # {}
    /\ call.result[1].confidence = Min({10, 4 * Cardinality(C22_Triggered)})

\* ------------------------------------------------------- course_matcher.py
StraightThreshold == 50
CurveThreshold == 60
MaxPoints == 5

\* A course is its number of vertices and the interior vertices at which
\* calculate_curvature exceeds CURVATURE_THRESHOLD. Segment j joins the
\* vertices j and j + 1.
Segments(course) == 1..(course.vertices - 1)

\* classify_segments: a bend marks the two segments that meet at its vertex.
ClassifySegments(course) ==
  [j \in Segments(course) |->
     course.vertices >= 3 /\ (j \in course.bends \/ j + 1 \in course.bends)]

\* A runner point is the sequence of its point_to_segment_distance to the
\* segments, in meters.
\* find_nearest_segment: the first segment at the smallest distance.
FindNearestSegment(point, course) ==
  Min({j \in Segments(course) : \A i \in Segments(course) : point[j] <= point[i]})

\* calculate_route_match, lines 251-266: whether point counts as matched.
PointMatches(point, course) ==
  LET seg_idx == FindNearestSegment(point, course)
      threshold == IF ClassifySegments(course)[seg_idx] THEN CurveThreshold
                   ELSE StraightThreshold
  IN point[seg_idx] <= threshold

\* The match that compares the ratio with "greater than".
IsCompletedStrict(matched_count, total) == matched_count * 5 > total * 4

\* Line 278: match_ratio >= COMPLETION_MIN_MATCH, the ratio being
\* matched_count / total and the minimum 0.8.
IsCompleted(matched_count, total) == matched_count * 5 >= total * 4

\* round(match_ratio * 100, 1), in tenths of a percent.
RouteMatchPercent(matched_count, total) == (2000 * matched_count + total) \div (2 * total)

\* calculate_route_match. matched_count is the function's local counter.
CalculateRouteMatch(runner_points, course) ==
  IF runner_points = <<>> \/ course.vertices < 2
  THEN [is_completed |-> FALSE, route_match_percent |-> 0, matched_count |-> 0,
        deviation_points |-> 0, total_points |-> Len(runner_points)]
  ELSE LET matched == {k \in 1..Len(runner_points) : PointMatches(runner_points[k], course)}
           total == Len(runner_points)
       IN [is_completed |-> IsCompleted(Cardinality(matched), total),
           route_match_percent |-> RouteMatchPercent(Cardinality(matched), total),
           matched_count |-> Cardinality(matched),
           deviation_points |-> total - Cardinality(matched),
           total_points |-> total]

RECURSIVE SeqsUpTo(_, _)
SeqsUpTo(S, n) ==
  IF n = 0 THEN {<<>>}
  ELSE LET shorter == SeqsUpTo(S, n - 1) IN
       shorter \cup {Append(q, x) : q \in {r \in shorter : Len(r) = n - 1}, x \in S}

RouteMatchInit ==
  /\ RunsInit
  /\ refresh_tokens = <<>>
  /\ \E c \in {[vertices |-> 0, bends |-> {}], [vertices |-> 1, bends |-> {}],
               [vertices |-> 2, bends |-> {}], [vertices |-> 3, bends |-> {}],
               [vertices |-> 3, bends |-> {2}], [vertices |-> 4, bends |-> {}],
               [vertices |-> 4, bends |-> {2}], [vertices |-> 4, bends |-> {3}]},
        pts \in SeqsUpTo({<<40, 90, 90>>, <<55, 55, 90>>, <<90, 70, 55>>, <<61, 90, 60>>,
                          <<50, 90, 90>>}, MaxPoints) :
       call = [fn |-> "calculate_route_match",
               args |-> [runner_points |-> pts, course_points |-> c],
               result |-> None]

RouteMatchCall ==
  /\ call.result = None
  /\ call' = [call EXCEPT !.result =
                Some(CalculateRouteMatch(call.args.runner_points, call.args.course_points))]
  /\ UNCHANGED <<run_sessions, run_chunks, run_records, external_imports, requests,
                 post, difficulty, refresh_tokens>>

RouteMatchSpec == RouteMatchInit /\ [][RouteMatchCall]_vars

RouteMatchReturned ==
  call # None /\ call.fn = "calculate_route_match" /\ call.result # None

ElevationThresholdTenths == 20
MaxAlts == 4

Abs(x) == IF x < 0 THEN 0 - x ELSE x

\* The body of the loop of _calculate_elevation, lines 83-95, for a point of
\* altitude alt (None when the point has none).
ElevationStep(acc, alt) ==
  IF alt = None \/ alt[1] = 0 THEN acc
  ELSE IF acc.prev_alt = None THEN [acc EXCEPT !.prev_alt = alt]
  ELSE LET diff == alt[1] - acc.prev_alt[1] IN
       IF Abs(diff) < ElevationThresholdTenths THEN acc
       ELSE IF diff > 0 THEN [acc EXCEPT !.gain = @ + diff, !.prev_alt = alt]
       ELSE [acc EXCEPT !.loss = @ + Abs(diff), !.prev_alt = alt]

\* The locals gain, loss and prev_alt after the loop over alts.
RECURSIVE ElevationWalk(_)
ElevationWalk(alts) ==
  IF alts = <<>> THEN [gain |-> 0, loss |-> 0, prev_alt |-> None]
  ELSE ElevationStep(ElevationWalk(SubSeq(alts, 1, Len(alts) - 1)), alts[Len(alts)])

\* The return value with the gain and the loss rounded to the nearest meter.
CalculateElevationRounded(alts) ==
  [gain |-> (ElevationWalk(alts).gain + 5) \div 10,
   loss |-> (ElevationWalk(alts).loss + 5) \div 10]

\* _calculate_elevation, line 97: int(gain), int(loss), in whole meters.
CalculateElevation(alts) ==
  [gain |-> ElevationWalk(alts).gain \div 10, loss |-> ElevationWalk(alts).loss \div 10]

\* The altitudes 100, 100.5, 101, 100.7, 103, 102, 105, 104, 107, 100.
ExampleAltitudes ==
  <<Some(1000), Some(1005), Some(1010), Some(1007), Some(1030), Some(1020),
    Some(1050), Some(1040), Some(1070), Some(1000)>>

ElevationInit ==
  /\ RunsInit
  /\ refresh_tokens = <<>>
  /\ \E alts \in SeqsUpTo({None, Some(0), Some(1000), Some(1015), Some(1020), Some(1045)},
                            MaxAlts) \cup {ExampleAltitudes} :
       call = [fn |-> "_calculate_elevation", args |-> alts, result |-> None]

ElevationCall ==
  /\ call.result = None
  /\ call' = [call EXCEPT !.result = Some(CalculateElevation(call.args))]
  /\ UNCHANGED <<run_sessions, run_chunks, run_records, external_imports, requests,
                 post, difficulty, refresh_tokens>>

ElevationSpec == ElevationInit /\ [][ElevationCall]_vars

ElevationReturned ==
  call # None /\ call.fn = "_calculate_elevation" /\ call.result # None

\* The altitudes of the points the walk does not skip.
RECURSIVE Measured(_)
Measured(alts) ==
  IF alts = <<>> THEN <<>>
  ELSE IF alts[1] = None \/ alts[1][1] = 0 THEN Measured(Tail(alts))
  ELSE <<alts[1][1]>> \o Measured(Tail(alts))

\* The walk of C24 over the measured altitudes m, from the reference ref on:
\* a delta below 2 m changes nothing, a larger one is added to the gain or to
\* the loss and moves the reference.
RECURSIVE Hysteresis(_, _)
Hysteresis(m, ref) ==
  IF m = <<>> THEN [gain |-> 0, loss |-> 0, ref |-> ref]
  ELSE IF Abs(m[1] - ref) < 20 THEN Hysteresis(Tail(m), ref)
  ELSE LET later == Hysteresis(Tail(m), m[1]) IN
       [gain |-> later.gain + (IF m[1] > ref THEN m[1] - ref ELSE 0),
        loss |-> later.loss + (IF m[1] < ref THEN ref - m[1] ELSE 0),
        ref |-> later.ref]

\* What C24 says of the accumulation and of the example.
ElevationAccumulates ==
  LET m == Measured(call.args)
      walk == IF m = <<>> THEN [gain |-> 0, loss |-> 0] ELSE Hysteresis(Tail(m), m[1])
  IN /\ call.result[1].gain = walk.gain \div 10
     /\ call.result[1].loss = walk.loss \div 10
     /\ call.args = ExampleAltitudes =>
          call.result[1].gain = 7 /\ call.result[1].loss = 7

\* C24 as stated: points without altitude or with altitude 0 are skipped, a
\* delta to the reference below 2 m changes nothing, a delta of 2 m or more
\* is added to the gain or to the loss and moves the reference; the example
\* yields gain 7 and loss 7; and for every input the returned gain minus the
\* returned loss equals the final reference minus the first reference.
C24_Original ==
  ElevationReturned =>
    /\ ElevationAccumulates
    /\ Measured(call.args) # <<>> =>
         (call.result[1].gain - call.result[1].loss) * 10 =
           Hysteresis(Tail(Measured(call.args)), Measured(call.args)[1]).ref
             - Measured(call.args)[1]

\* C24: the accumulation and the example as stated; the accumulated gain
\* minus the accumulated loss equals the final reference minus the first
\* reference, and the returned values, which are the whole meters of the two
\* sums, differ from that by less than 1 m and equal it when it is a whole
\* number of meters.
C24_Elevation ==
  ElevationReturned =>
    /\ ElevationAccumulates
    /\ Measured(call.args) # <<>> =>
         LET first == Measured(call.args)[1]
             final == Hysteresis(Tail(Measured(call.args)), first).ref
             returned == (call.result[1].gain - call.result[1].loss) * 10
         IN /\ ElevationWalk(call.args).gain - ElevationWalk(call.args).loss = final - first
            /\ ElevationWalk(call.args).prev_alt = Some(final)
            /\ Abs(returned - (final - first)) < 10
            /\ (final - first) % 10 = 0 => returned = final - first

\* The example has been walked, with 7 m of gain and 7 m of loss.
C24_Witness ==
  /\ ElevationReturned
  /\ call.args = ExampleAltitudes
  /\ call.result = Some([gain |-> 7, loss |-> 7])

\* ------------------------------------------------ file_parser._build_splits
SplitLength == 1000
MaxTrack == 4

\* A trackpoint is [d, timestamp]: d is the _haversine distance from the point
\* before it in meters, timestamp is None or the seconds since the first point.
\* The body of the loop of _build_splits, lines 114-143, for points[i].
SplitStep(acc, points, i) ==
  LET cumulative == acc.cumulative_distance + points[i].d
      start_time == points[acc.split_start_idx].timestamp
      end_time == points[i].timestamp
      duration == end_time[1] - start_time[1]
  IN IF cumulative - acc.split_start_distance >= SplitLength
     THEN [splits |-> IF start_time # None /\ end_time # None
                      THEN Append(acc.splits,
                                  [split_number |-> acc.split_number,
                                   distance_meters |-> cumulative - acc.split_start_distance,
                                   duration_seconds |-> duration,
                                   pace_seconds_per_km |-> duration])
                      ELSE acc.splits,
           split_number |-> acc.split_number + 1,
           split_start_idx |-> i,
           cumulative_distance |-> cumulative,
           split_start_distance |-> cumulative]
     ELSE [acc EXCEPT !.cumulative_distance = cumulative]

\* The locals of _build_splits after the points 2..i.
RECURSIVE SplitWalk(_, _)
SplitWalk(points, i) ==
  IF i < 2
  THEN [splits |-> <<>>, split_number |-> 1, split_start_idx |-> 1,
        cumulative_distance |-> 0, split_start_distance |-> 0]
  ELSE SplitStep(SplitWalk(points, i - 1), points, i)

\* _build_splits.
BuildSplits(points) == SplitWalk(points, Len(points)).splits

\* build_activity, lines 175-180: the duration between the first and the last
\* point, 0 when either has no timestamp.
ActivityDuration(points) ==
  IF points[1].timestamp # None /\ points[Len(points)].timestamp # None
  THEN points[Len(points)].timestamp[1] - points[1].timestamp[1]
  ELSE 0

\* build_activity, lines 193-199: the splits and the best pace.
BuildActivity(points) ==
  LET splits == BuildSplits(points) IN
  [splits |-> splits,
   best_pace_seconds_per_km |->
     IF splits = <<>> THEN None
     ELSE Some(Min({splits[k].pace_seconds_per_km : k \in 1..Len(splits)})),
   duration_seconds |-> ActivityDuration(points)]

\* What follows a point: the distance and the seconds to the next one, and
\* whether the next one carries a timestamp.
TrackSteps ==
  {[d |-> x[1], dt |-> x[2], timed |-> b] :
     x \in {<<500, 100>>, <<1000, 250>>, <<600, 90>>}, b \in BOOLEAN}

\* The points of a track that starts with a point with (timed) or without a
\* timestamp and goes on by steps.
RECURSIVE Elapsed(_)
Elapsed(steps) ==
  IF steps = <<>> THEN 0 ELSE steps[1].dt + Elapsed(Tail(steps))

Track(timed, steps) ==
  <<[d |-> 0, timestamp |-> IF timed THEN Some(0) ELSE None]>> \o
  [k \in 1..Len(steps) |->
     [d |-> steps[k].d,
      timestamp |-> IF steps[k].timed THEN Some(Elapsed(SubSeq(steps, 1, k))) ELSE None]]

\* Points every 100 m at a cadence of 10 s over 2.1 km.
ExampleTrack == Track(TRUE, [k \in 1..21 |-> [d |-> 100, dt |-> 10, timed |-> TRUE]])

SplitsInit ==
  /\ RunsInit
  /\ refresh_tokens = <<>>
  /\ \E points \in {Track(b, steps) : b \in BOOLEAN, steps \in SeqsUpTo(TrackSteps, MaxTrack)}
                     \cup {ExampleTrack} :
       call = [fn |-> "build_activity", args |-> points, result |-> None]

BuildActivityCall ==
  /\ call.result = None
  /\ call' = [call EXCEPT !.result = Some(BuildActivity(call.args))]
  /\ UNCHANGED <<run_sessions, run_chunks, run_records, external_imports, requests,
                 post, difficulty, refresh_tokens>>

SplitsSpec == SplitsInit /\ [][BuildActivityCall]_vars

\* The points at which the distance accumulated since the previous boundary
\* (the first point at the start) has reached 1000 m.
RECURSIVE Boundaries(_, _, _)
Boundaries(points, i, since) ==
  IF i > Len(points) THEN {}
  ELSE IF since + points[i].d >= 1000 THEN {i} \cup Boundaries(points, i + 1, 0)
  ELSE Boundaries(points, i + 1, since + points[i].d)

RECURSIVE SumDurations(_)
SumDurations(splits) ==
  IF splits = <<>> THEN 0 ELSE splits[1].duration_seconds + SumDurations(Tail(splits))

\* C25: walking the points in order, a split is emitted each time the
\* distance accumulated since the previous boundary reaches 1000 m; the
\* splits are numbered 1, 2, 3, ... without gaps; each has a distance of at
\* least 1000 m and a pace equal to its duration; the durations sum to at
\* most the total duration; points every 100 m at 10 s over 2.1 km give
\* exactly 2 splits of pace 100 and a best pace of 100.
C25_Splits ==
  (call # None /\ call.fn = "build_activity" /\ call.result # None) =>
    LET res == call.result[1] IN
    /\ Len(res.splits) = Cardinality(Boundaries(call.args, 2, 0))
    /\ \A k \in 1..Len(res.splits) :
         /\ res.splits[k].split_number = k
         /\ res.splits[k].distance_meters >= 1000
         /\ res.splits[k].pace_seconds_per_km = res.splits[k].duration_seconds
    /\ SumDurations(res.splits) <= res.duration_seconds
    /\ call.args = ExampleTrack =>
         /\ Len(res.splits) = 2
         /\ \A k \in 1..2 : res.splits[k].pace_seconds_per_km = 100
         /\ res.best_pace_seconds_per_km = Some(100)
====
